---- MODULE Spec2Model ----
(***************************************************************************)
(* Receipt scanner: the extraction pipeline of ReceiptsService             *)
(* (scanReceipt, extractJsonFromLLMResponse, sanitizeJsonString,           *)
(* validateAndCleanData, extractDataWithRegex, parseDate).                 *)
(*                                                                         *)
(* Text is a sequence of one-character strings.  JavaScript values are     *)
(* tagged records (field t); every tag has its own field names.            *)
(***************************************************************************)
EXTENDS Integers, Sequences, FiniteSets, TLC

\* ------------------------------------------------------------------------
\* Characters and text helpers
\* ------------------------------------------------------------------------

DQ == "\""
SQ == "'"
BS == "\\"
NL == "\n"

Digits == {"0", "1", "2", "3", "4", "5", "6", "7", "8", "9"}

Letters ==
  {"a", "b", "c", "d", "e", "f", "g", "h", "i", "j", "k", "l", "m",
   "n", "o", "p", "q", "r", "s", "t", "u", "v", "w", "x", "y", "z",
   "A", "B", "C", "D", "E", "F", "G", "H", "I", "J", "K", "L", "M",
   "N", "O", "P", "Q", "R", "S", "T", "U", "V", "W", "X", "Y", "Z"}

\* [a-zA-Z0-9_]
WordChars == Letters \cup Digits \cup {"_"}

\* \s
Ws == {" ", "\n", "\t", "\r"}

\* [\u0000-\u001F\u007F-\u009F] restricted to the characters of the model
ControlChars == {"\n", "\t", "\r"}

\* the character at position i, "" past either end
At(s, i) == IF i >= 1 /\ i <= Len(s) THEN s[i] ELSE ""

Sub(s, a, b) == IF a > b THEN <<>> ELSE SubSeq(s, a, b)

\* lit occurs in s at position i
MatchLit(s, i, lit) ==
  /\ i >= 1
  /\ i + Len(lit) - 1 <= Len(s)
  /\ SubSeq(s, i, i + Len(lit) - 1) = lit

RECURSIVE RunEnd(_, _, _)
\* first position >= i whose character is not in class C (Len(s)+1 if none)
RunEnd(s, i, C) ==
  IF i <= Len(s) /\ s[i] \in C THEN RunEnd(s, i + 1, C) ELSE i

\* expression F with v for its name: const x = v; F
Bind(v, F(_)) == F(v)

SkipWs(s, i) == RunEnd(s, i, Ws)

Min(S) == CHOOSE x \in S : \A y \in S : x <= y
Max(S) == CHOOSE x \in S : \A y \in S : x >= y

\* first position >= i where lit occurs, 0 if none
IndexOfLit(s, i, lit) ==
  LET hits == {j \in i..(Len(s) - Len(lit) + 1) : MatchLit(s, j, lit)}
  IN  IF hits = {} THEN 0 ELSE Min(hits)

\* last position <= i holding character c, 0 if none
LastIndexOfChar(s, i, c) ==
  LET hits == {j \in 1..i : j <= Len(s) /\ s[j] = c}
  IN  IF hits = {} THEN 0 ELSE Max(hits)

\* st after step(st, 1), step(st, 2), ..., step(st, n): a loop over the
\* positions of a text, evaluated by halving (l = l has the left half
\* evaluated before the right half starts)
FoldIdx(step(_, _), st0, n) ==
  LET RECURSIVE F(_, _, _)
      F(a, b, st) ==
        IF a > b THEN st
        ELSE IF a = b THEN step(st, a)
        ELSE LET m == (a + b) \div 2
                 l == F(a, m, st)
             IN  IF l = l THEN F(m + 1, b, l) ELSE st
  IN  F(1, n, st0)

RECURSIVE SkipWsBack(_, _)
\* last position <= i holding a non-whitespace character, 0 if none
SkipWsBack(s, i) ==
  IF i >= 1 /\ s[i] \in Ws THEN SkipWsBack(s, i - 1) ELSE i

\* String.prototype.trim
Trim(s) == Sub(s, SkipWs(s, 1), SkipWsBack(s, Len(s)))

\* String.prototype.replace(regex /g, ...): scan left to right; where
\* MatchEnd(s, i) >= i the span i..MatchEnd is replaced by Rep(s, i, e) and
\* the scan resumes after it, otherwise the character is copied.
ReplaceAll(s, MatchEnd(_, _), Rep(_, _, _)) ==
  LET step(st, p) ==
        IF p < st.i THEN st
        ELSE LET e == MatchEnd(s, p)
             IN  IF e >= p THEN [i |-> e + 1, acc |-> st.acc \o Rep(s, p, e)]
                 ELSE [i |-> p + 1, acc |-> Append(st.acc, s[p])]
  IN  FoldIdx(step, [i |-> 1, acc |-> <<>>], Len(s)).acc

\* ------------------------------------------------------------------------
\* sanitizeJsonString, step 3: escape sequences
\* ------------------------------------------------------------------------

\* the characters of /\\["\\/bfnrt]/ after the backslash
ValidEscapeChars == {DQ, BS, "/", "b", "f", "n", "r", "t"}

ValidEscapeEnd(s, i) ==
  IF At(s, i) = BS /\ At(s, i + 1) \in ValidEscapeChars THEN i + 1 ELSE 0

LoneBackslashEnd(s, i) ==
  IF ValidEscapeEnd(s, i) >= i THEN i + 1   \* the pair is kept as it is
  ELSE IF At(s, i) = BS THEN i
  ELSE 0

LoneBackslashRep(s, i, e) == IF e = i THEN <<>> ELSE SubSeq(s, i, e)

\* valid escape pairs are put aside, every other backslash is removed, the
\* pairs are put back
FixEscapes(s) == ReplaceAll(s, LoneBackslashEnd, LoneBackslashRep)

\* ------------------------------------------------------------------------
\* sanitizeJsonString, step 4: the chain of regular-expression repairs
\* ------------------------------------------------------------------------

\* /(['"])?([a-zA-Z0-9_]+)(['"])?:/  ->  "$2":
KeyWordStart(s, i) == IF At(s, i) \in {SQ, DQ} THEN i + 1 ELSE i

KeyEnd(s, i) ==
  LET w == KeyWordStart(s, i)
      r == RunEnd(s, w, WordChars)
  IN  IF r = w THEN 0
      ELSE IF At(s, r) = ":" THEN r
      ELSE IF At(s, r) \in {SQ, DQ} /\ At(s, r + 1) = ":" THEN r + 1
      ELSE 0

KeyRep(s, i, e) ==
  LET w == KeyWordStart(s, i)
  IN  <<DQ>> \o Sub(s, w, RunEnd(s, w, WordChars) - 1) \o <<DQ, ":">>

\* /:\s*'([^']*)'/  ->  : "$1"
SingleQuotedValueEnd(s, i) ==
  IF At(s, i) # ":" THEN 0
  ELSE LET q == SkipWs(s, i + 1)
       IN  IF At(s, q) # SQ THEN 0 ELSE IndexOfLit(s, q + 1, <<SQ>>)

SingleQuotedValueRep(s, i, e) ==
  <<":", " ", DQ>> \o Sub(s, SkipWs(s, i + 1) + 1, e - 1) \o <<DQ>>

\* /:\s*([a-zA-Z][a-zA-Z0-9_\s]*[a-zA-Z0-9_])(?=\s*[,}])/  ->  : "$1"
BareValueEnd(s, i) ==
  IF At(s, i) # ":" THEN 0
  ELSE LET b == SkipWs(s, i + 1)
           r == RunEnd(s, b, WordChars \cup Ws)
           e == SkipWsBack(s, r - 1)
       IN  IF At(s, b) \in Letters /\ e > b /\ At(s, r) \in {",", "}"}
           THEN e ELSE 0

BareValueRep(s, i, e) ==
  <<":", " ", DQ>> \o Sub(s, SkipWs(s, i + 1), e) \o <<DQ>>

\* a pattern  A \s* B : the end of its match at i, 0 if none
GapEnd(s, i, A, B) ==
  IF ~MatchLit(s, i, A) THEN 0
  ELSE LET j == SkipWs(s, i + Len(A))
       IN  IF MatchLit(s, j, B) THEN j + Len(B) - 1 ELSE 0

TrailingCommaObjEnd(s, i) == GapEnd(s, i, <<",">>, <<"}">>)
TrailingCommaObjRep(s, i, e) == <<"}">>
TrailingCommaArrEnd(s, i) == GapEnd(s, i, <<",">>, <<"]">>)
TrailingCommaArrRep(s, i, e) == <<"]">>
ObjObjEnd(s, i) == GapEnd(s, i, <<"}">>, <<"{">>)
ObjObjRep(s, i, e) == <<"}", ",", " ", "{">>
ArrArrEnd(s, i) == GapEnd(s, i, <<"]">>, <<"[">>)
ArrArrRep(s, i, e) == <<"]", ",", " ", "[">>
QuoteArrEnd(s, i) == GapEnd(s, i, <<DQ>>, <<"[">>)
QuoteArrRep(s, i, e) == <<DQ, ",", " ", "[">>
ArrQuoteEnd(s, i) == GapEnd(s, i, <<"]">>, <<DQ>>)
ArrQuoteRep(s, i, e) == <<"]", ",", " ", DQ>>
ObjArrEnd(s, i) == GapEnd(s, i, <<"}">>, <<"[">>)
ObjArrRep(s, i, e) == <<"}", ",", " ", "[">>
ArrObjEnd(s, i) == GapEnd(s, i, <<"]">>, <<"{">>)
ArrObjRep(s, i, e) == <<"]", ",", " ", "{">>
QuoteCommaQuoteEnd(s, i) == GapEnd(s, i, <<DQ, ",">>, <<DQ>>)
QuoteCommaQuoteRep(s, i, e) == <<DQ, ",", " ", DQ>>

\* /"\s*,\s*"/
QuoteWsCommaQuoteEnd(s, i) ==
  IF At(s, i) # DQ THEN 0
  ELSE LET c == SkipWs(s, i + 1)
       IN  IF At(s, c) # "," THEN 0
           ELSE LET q == SkipWs(s, c + 1)
                IN  IF At(s, q) = DQ THEN q ELSE 0

\* /"\s*\n\s*"/  ->  one space
QuoteBreakQuoteEnd(s, i) ==
  IF At(s, i) # DQ THEN 0
  ELSE LET q == SkipWs(s, i + 1)
       IN  IF At(s, q) = DQ /\ \E k \in (i + 1)..(q - 1) : s[k] = NL
           THEN q ELSE 0

QuoteBreakQuoteRep(s, i, e) == <<" ">>

\* /\n/  ->  one space
NewlineEnd(s, i) == IF At(s, i) = NL THEN i ELSE 0
NewlineRep(s, i, e) == <<" ">>

FixSyntax(s) ==
  LET s1  == ReplaceAll(s, KeyEnd, KeyRep)
      s2  == ReplaceAll(s1, SingleQuotedValueEnd, SingleQuotedValueRep)
      s3  == ReplaceAll(s2, BareValueEnd, BareValueRep)
      s4  == ReplaceAll(s3, TrailingCommaObjEnd, TrailingCommaObjRep)
      s5  == ReplaceAll(s4, TrailingCommaArrEnd, TrailingCommaArrRep)
      s6  == ReplaceAll(s5, ObjObjEnd, ObjObjRep)
      s7  == ReplaceAll(s6, ArrArrEnd, ArrArrRep)
      s8  == ReplaceAll(s7, QuoteArrEnd, QuoteArrRep)
      s9  == ReplaceAll(s8, ArrQuoteEnd, ArrQuoteRep)
      s10 == ReplaceAll(s9, ObjArrEnd, ObjArrRep)
      s11 == ReplaceAll(s10, ArrObjEnd, ArrObjRep)
      s12 == ReplaceAll(s11, QuoteCommaQuoteEnd, QuoteCommaQuoteRep)
      s13 == ReplaceAll(s12, QuoteWsCommaQuoteEnd, QuoteCommaQuoteRep)
      s14 == ReplaceAll(s13, QuoteBreakQuoteEnd, QuoteBreakQuoteRep)
  IN  ReplaceAll(s14, NewlineEnd, NewlineRep)

\* ------------------------------------------------------------------------
\* sanitizeJsonString, steps 5 and 6
\* ------------------------------------------------------------------------

\* step 5: the envelope
FixEnvelope(s) ==
  LET a == IF At(s, 1) = "{" THEN s ELSE <<"{">> \o s
  IN  IF At(a, Len(a)) = "}" THEN a ELSE Append(a, "}")

\* /\\\\"/  ->  \"
DoubleEscapedQuoteEnd(s, i) ==
  IF MatchLit(s, i, <<BS, BS, DQ>>) THEN i + 2 ELSE 0
DoubleEscapedQuoteRep(s, i, e) == <<BS, DQ>>

\* one turn of the loop with a double quote inside a string turned into a
\* space as a single quote is: a defect the copies of C17 must show
QuotePassStepBlanking(s, st, i) ==
  LET char == s[i]
  IN  IF st.inEscape
        THEN [st EXCEPT !.result = Append(@, char), !.inEscape = FALSE]
      ELSE IF char = BS
        THEN [st EXCEPT !.result = Append(@, char), !.inEscape = TRUE]
      ELSE IF st.inString /\ (char = DQ \/ char = SQ)
        THEN [st EXCEPT !.result = Append(@, " ")]
      ELSE IF char = DQ
        THEN [st EXCEPT !.result = Append(@, char), !.inString = ~@]
      ELSE [st EXCEPT !.result = Append(@, char)]

\* one turn of the character loop with its two flags
QuotePassStep(s, st, i) ==
  LET char == s[i]
  IN  IF st.inEscape
        THEN [st EXCEPT !.result = Append(@, char), !.inEscape = FALSE]
      ELSE IF char = BS
        THEN [st EXCEPT !.result = Append(@, char), !.inEscape = TRUE]
      ELSE IF char = DQ
        THEN [st EXCEPT !.result = Append(@, char), !.inString = ~@]
      ELSE IF st.inString /\ (char = DQ \/ char = SQ)
        THEN [st EXCEPT !.result = Append(@, " ")]
      ELSE [st EXCEPT !.result = Append(@, char)]

QuotePass(s) ==
  LET step(st, i) == QuotePassStep(s, st, i)
      result == FoldIdx(step, [inString |-> FALSE, inEscape |-> FALSE,
                               result |-> <<>>], Len(s)).result
  IN  IF result # <<>> THEN result ELSE s

\* the text returned when a step of the sanitizer throws:
\* {"vendorName":"Unknown Vendor","transactionDate":"2023-01-01","totalAmount":0,"items":[]}
FallbackText ==
  <<"{", DQ, "v", "e", "n", "d", "o", "r", "N", "a", "m", "e", DQ, ":",
    DQ, "U", "n", "k", "n", "o", "w", "n", " ", "V", "e", "n", "d", "o", "r", DQ, ",",
    DQ, "t", "r", "a", "n", "s", "a", "c", "t", "i", "o", "n", "D", "a", "t", "e", DQ, ":",
    DQ, "2", "0", "2", "3", "-", "0", "1", "-", "0", "1", DQ, ",",
    DQ, "t", "o", "t", "a", "l", "A", "m", "o", "u", "n", "t", DQ, ":", "0", ",",
    DQ, "i", "t", "e", "m", "s", DQ, ":", "[", "]", "}">>

\* the text the character loop reads
QuotePassInput(jsonStr) ==
  ReplaceAll(FixEnvelope(FixSyntax(FixEscapes(Trim(jsonStr)))),
             DoubleEscapedQuoteEnd, DoubleEscapedQuoteRep)

\* sanitizeJsonString with no step throwing
SanitizeSteps(jsonStr) == QuotePass(QuotePassInput(jsonStr))

\* sanitizeJsonString; threw: something inside the try block (the injected
\* logger is all that can) has thrown
sanitizeJsonString(jsonStr, threw) ==
  IF threw THEN FallbackText ELSE SanitizeSteps(jsonStr)

\* ------------------------------------------------------------------------
\* JavaScript values
\* ------------------------------------------------------------------------

Undefined == [t |-> "undefined"]
Null == [t |-> "null"]
NaN == [t |-> "nan"]
Infinity(negative) == [t |-> "inf", neg |-> negative]
Bool(b) == [t |-> "bool", b |-> b]
Str(s) == [t |-> "str", s |-> s]
Arr(a) == [t |-> "arr", a |-> a]
\* an object: its properties <<key, value>> in the order they were written
Obj(p) == [t |-> "obj", p |-> p]

RECURSIVE Reduce(_, _)
\* the decimal m / 10^k without trailing zeros in the fraction
Reduce(m, k) == IF k > 0 /\ m % 10 = 0 THEN Reduce(m \div 10, k - 1) ELSE [m |-> m, k |-> k]

\* the number m / 10^k
Num(m, k) == [t |-> "num", m |-> Reduce(m, k).m, k |-> Reduce(m, k).k]

RECURSIVE Pow10(_)
Pow10(n) == IF n <= 0 THEN 1 ELSE 10 * Pow10(n - 1)

DigitSeq == <<"0", "1", "2", "3", "4", "5", "6", "7", "8", "9">>
DigitVal(c) == (CHOOSE d \in 1..10 : DigitSeq[d] = c) - 1

RECURSIVE DigitsToInt(_, _)
\* the value of a text of digits, read after acc
DigitsToInt(ds, acc) ==
  IF ds = <<>> THEN acc ELSE DigitsToInt(Tail(ds), 10 * acc + DigitVal(Head(ds)))

\* obj[key]: the last property written under that key
Get(v, key) ==
  IF v.t # "obj" THEN Undefined
  ELSE LET hits == {n \in 1..Len(v.p) : v.p[n][1] = key}
       IN  IF hits = {} THEN Undefined ELSE v.p[Max(hits)][2]

\* ToBoolean
Truthy(v) ==
  CASE v.t \in {"undefined", "null", "nan"} -> FALSE
    [] v.t = "bool" -> v.b
    [] v.t = "num" -> v.m # 0
    [] v.t = "str" -> v.s # <<>>
    [] OTHER -> TRUE

\* a || b
OrElse(a, b) == IF Truthy(a) THEN a ELSE b

\* ------------------------------------------------------------------------
\* JSON.parse and JSON5.parse
\* (objects, arrays, strings with the two-character escapes, decimal numbers
\* with exponent, true, false, null; JSON5 adds single-quoted strings,
\* identifier keys, trailing commas, a leading + and a leading or trailing
\* decimal point, Infinity and NaN)
\* ------------------------------------------------------------------------

Fail == [ok |-> FALSE, v |-> Undefined, i |-> 0]
Ok(v, i) == [ok |-> TRUE, v |-> v, i |-> i]

RECURSIVE BackslashesBefore(_, _, _)
\* how many backslashes end at position j, none of them before position lo
BackslashesBefore(s, j, lo) ==
  IF j >= lo /\ s[j] = BS THEN 1 + BackslashesBefore(s, j - 1, lo) ELSE 0

\* the position of the quote q that closes the string opened at i, 0 if none
ClosingQuote(s, i, q) ==
  LET hits == {j \in (i + 1)..Len(s) :
                 s[j] = q /\ BackslashesBefore(s, j - 1, i + 1) % 2 = 0}
  IN  IF hits = {} THEN 0 ELSE Min(hits)

BadEscape == "?bad-escape?"

EscapeEnd(s, i) == IF At(s, i) = BS THEN (IF i < Len(s) THEN i + 1 ELSE i) ELSE 0

\* what a backslash and the character after it stand for in JSON
StrictEscapeRep(s, i, e) ==
  LET c == IF e > i THEN s[e] ELSE ""
  IN  CASE c \in {DQ, BS, "/"} -> <<c>>
        [] c = "n" -> <<"\n">>
        [] c = "t" -> <<"\t">>
        [] c = "r" -> <<"\r">>
        [] c = "b" -> <<"\\b">>
        [] c = "f" -> <<"\f">>
        [] OTHER -> <<BadEscape>>

\* ... and in JSON5, where any other character stands for itself
LenientEscapeRep(s, i, e) ==
  LET c == IF e > i THEN s[e] ELSE ""
  IN  IF c \in {"n", "t", "r", "b", "f"} THEN StrictEscapeRep(s, i, e)
      ELSE IF c \in Digits \cup {"x", "u", ""} THEN <<BadEscape>>
      ELSE <<c>>

\* a string literal opening at i; strict JSON takes no raw control character
ParseString(s, i, lenient) ==
  Bind(ClosingQuote(s, i, s[i]), LAMBDA c :
    IF c = 0 THEN Fail
    ELSE
  Bind(Sub(s, i + 1, c - 1), LAMBDA body :
  Bind(IF lenient THEN ReplaceAll(body, EscapeEnd, LenientEscapeRep)
       ELSE ReplaceAll(body, EscapeEnd, StrictEscapeRep), LAMBDA text :
  Bind(IF lenient THEN {"\n", "\r"} ELSE ControlChars, LAMBDA raw :
    IF \E n \in 1..Len(body) : body[n] \in raw THEN Fail
    ELSE IF \E n \in 1..Len(text) : text[n] = BadEscape THEN Fail
    ELSE Ok(Str(text), c + 1)))))

\* the exponent part at i, if any: [ok, e, i]
ParseExponent(s, i) ==
  IF At(s, i) \notin {"e", "E"} THEN [ok |-> TRUE, e |-> 0, i |-> i]
  ELSE
  Bind(IF At(s, i + 1) \in {"+", "-"} THEN i + 2 ELSE i + 1, LAMBDA sg :
  Bind(RunEnd(s, sg, Digits), LAMBDA r :
    IF r = sg THEN [ok |-> FALSE, e |-> 0, i |-> 0]
    ELSE
  Bind(DigitsToInt(Sub(s, sg, r - 1), 0), LAMBDA n :
    [ok |-> TRUE, e |-> IF At(s, i + 1) = "-" THEN 0 - n ELSE n, i |-> r])))

\* the number sign * intDigits.fracDigits * 10^e
Decimal(negative, intDigits, fracDigits, e) ==
  Bind(DigitsToInt(intDigits \o fracDigits, 0), LAMBDA m :
  Bind(Len(fracDigits) - e, LAMBDA k :
  Bind(IF k >= 0 THEN Num(m, k) ELSE Num(m * Pow10(0 - k), 0), LAMBDA v :
    IF negative THEN Num(0 - v.m, v.k) ELSE v)))

\* a number literal opening at i
ParseNumber(s, i, lenient) ==
  Bind(IF At(s, i) = "-" \/ (lenient /\ At(s, i) = "+") THEN i + 1 ELSE i, LAMBDA a :
    IF lenient /\ MatchLit(s, a, <<"I", "n", "f", "i", "n", "i", "t", "y">>)
      THEN Ok(Infinity(At(s, i) = "-"), a + 8)
    ELSE IF lenient /\ MatchLit(s, a, <<"N", "a", "N">>) THEN Ok(NaN, a + 3)
    ELSE
  Bind(RunEnd(s, a, Digits), LAMBDA r :
  Bind(At(s, r) = ".", LAMBDA hasPoint :
  Bind(IF hasPoint THEN RunEnd(s, r + 1, Digits) ELSE r, LAMBDA f :
  Bind(Sub(s, a, r - 1), LAMBDA intDigits :
  Bind(IF hasPoint THEN Sub(s, r + 1, f - 1) ELSE <<>>, LAMBDA fracDigits :
  Bind(ParseExponent(s, f), LAMBDA x :
  Bind(IF lenient
         THEN /\ intDigits # <<>> \/ fracDigits # <<>>
              /\ Len(intDigits) <= 1 \/ intDigits[1] # "0"
         ELSE /\ intDigits # <<>>
              /\ Len(intDigits) = 1 \/ intDigits[1] # "0"
              /\ hasPoint => fracDigits # <<>>, LAMBDA wellFormed :
    IF ~wellFormed \/ ~x.ok THEN Fail
    ELSE Ok(Decimal(At(s, i) = "-", intDigits, fracDigits, x.e), x.i)))))))))

\* an object key at i: a double-quoted string; JSON5 also takes a
\* single-quoted string or an identifier
ParseKey(s, i, lenient) ==
  IF At(s, i) = DQ \/ (lenient /\ At(s, i) = SQ) THEN ParseString(s, i, lenient)
  ELSE IF lenient /\ At(s, i) \in Letters \cup {"_", "$"}
    THEN Bind(RunEnd(s, i, WordChars \cup {"$"}), LAMBDA r :
           Ok(Str(Sub(s, i, r - 1)), r))
  ELSE Fail

RECURSIVE ParseValue(_, _, _)
RECURSIVE ParseMembers(_, _, _, _)
RECURSIVE ParseElements(_, _, _, _)

\* after a member or an element that ends before n: the close, or a comma
\* and the rest (JSON5 takes the close after the comma too)
AfterEntry(s, n, lenient, close, Done(_), More) ==
  IF At(s, n) = close THEN Done(n + 1)
  ELSE IF At(s, n) # "," THEN Fail
  ELSE Bind(SkipWs(s, n + 1), LAMBDA a :
         IF lenient /\ At(s, a) = close THEN Done(a + 1) ELSE More)

\* the properties of an object, from the key expected at i, after those of acc
ParseMembers(s, i, lenient, acc) ==
  Bind(ParseKey(s, SkipWs(s, i), lenient), LAMBDA k :
    IF ~k.ok THEN Fail
    ELSE
  Bind(SkipWs(s, k.i), LAMBDA c :
    IF At(s, c) # ":" THEN Fail
    ELSE
  Bind(ParseValue(s, c + 1, lenient), LAMBDA v :
    IF ~v.ok THEN Fail
    ELSE
  Bind(SkipWs(s, v.i), LAMBDA n :
  Bind(Append(acc, <<k.v.s, v.v>>), LAMBDA more :
    AfterEntry(s, n, lenient, "}", LAMBDA e : Ok(Obj(more), e),
               ParseMembers(s, n + 1, lenient, more)))))))

\* the elements of an array, from the value expected at i, after those of acc
ParseElements(s, i, lenient, acc) ==
  Bind(ParseValue(s, i, lenient), LAMBDA v :
    IF ~v.ok THEN Fail
    ELSE
  Bind(SkipWs(s, v.i), LAMBDA n :
  Bind(Append(acc, v.v), LAMBDA more :
    AfterEntry(s, n, lenient, "]", LAMBDA e : Ok(Arr(more), e),
               ParseElements(s, n + 1, lenient, more)))))

\* the value that opens at or after i
ParseValue(s, i, lenient) ==
  Bind(SkipWs(s, i), LAMBDA j :
  Bind(At(s, j), LAMBDA c :
  Bind(IF c \in {"{", "["} THEN SkipWs(s, j + 1) ELSE 0, LAMBDA a :
    IF c = "{"
      THEN IF At(s, a) = "}" THEN Ok(Obj(<<>>), a + 1)
           ELSE ParseMembers(s, j + 1, lenient, <<>>)
    ELSE IF c = "["
      THEN IF At(s, a) = "]" THEN Ok(Arr(<<>>), a + 1)
           ELSE ParseElements(s, j + 1, lenient, <<>>)
    ELSE IF c = DQ \/ (lenient /\ c = SQ) THEN ParseString(s, j, lenient)
    ELSE IF MatchLit(s, j, <<"t", "r", "u", "e">>) THEN Ok(Bool(TRUE), j + 4)
    ELSE IF MatchLit(s, j, <<"f", "a", "l", "s", "e">>) THEN Ok(Bool(FALSE), j + 5)
    ELSE IF MatchLit(s, j, <<"n", "u", "l", "l">>) THEN Ok(Null, j + 4)
    ELSE IF c \in Digits \cup {"-"} \/ (lenient /\ c \in {"+", ".", "I", "N"})
      THEN ParseNumber(s, j, lenient)
    ELSE Fail)))

\* a whole text: one value and nothing after it
ParseText(s, lenient) ==
  Bind(ParseValue(s, 1, lenient), LAMBDA r :
    IF r.ok /\ SkipWs(s, r.i) > Len(s) THEN r ELSE Fail)

\* JSON.parse: [ok, v]; ok is FALSE where it throws a SyntaxError
JSONParse(s) == ParseText(s, FALSE)

\* JSON5.parse
JSON5Parse(s) == ParseText(s, TRUE)

\* ------------------------------------------------------------------------
\* String(value) and parseFloat(text)
\* ------------------------------------------------------------------------

RECURSIVE NatToDigits(_)
NatToDigits(n) ==
  IF n < 10 THEN <<DigitSeq[n + 1]>>
  ELSE Append(NatToDigits(n \div 10), DigitSeq[(n % 10) + 1])

RECURSIVE PadLeft(_, _)
\* digits ds with zeros in front up to n places
PadLeft(ds, n) == IF Len(ds) >= n THEN ds ELSE PadLeft(<<"0">> \o ds, n)

\* Number.prototype.toString of m / 10^k (no exponent form)
NumToString(m, k) ==
  LET a == IF m < 0 THEN 0 - m ELSE m
      whole == NatToDigits(a \div Pow10(k))
      frac == IF k = 0 THEN <<>> ELSE <<".">> \o PadLeft(NatToDigits(a % Pow10(k)), k)
  IN  (IF m < 0 THEN <<"-">> ELSE <<>>) \o whole \o frac

RECURSIVE ToStringChars(_)
RECURSIVE JoinElements(_, _)

\* Array.prototype.join(","): null and undefined elements give nothing
JoinElements(a, n) ==
  IF n > Len(a) THEN <<>>
  ELSE (IF n > 1 THEN <<",">> ELSE <<>>)
       \o (IF a[n].t \in {"null", "undefined"} THEN <<>> ELSE ToStringChars(a[n]))
       \o JoinElements(a, n + 1)

\* String(v)
ToStringChars(v) ==
  CASE v.t = "str" -> v.s
    [] v.t = "num" -> NumToString(v.m, v.k)
    [] v.t = "bool" -> IF v.b THEN <<"t", "r", "u", "e">> ELSE <<"f", "a", "l", "s", "e">>
    [] v.t = "null" -> <<"n", "u", "l", "l">>
    [] v.t = "undefined" -> <<"u", "n", "d", "e", "f", "i", "n", "e", "d">>
    [] v.t = "nan" -> <<"N", "a", "N">>
    [] v.t = "inf" -> (IF v.neg THEN <<"-">> ELSE <<>>) \o <<"I", "n", "f", "i", "n", "i", "t", "y">>
    [] v.t = "arr" -> JoinElements(v.a, 1)
    [] OTHER -> <<"[", "o", "b", "j", "e", "c", "t", " ", "O", "b", "j", "e", "c", "t", "]">>

\* parseFloat: the longest decimal literal the text starts with, NaN if none
ParseFloat(s) ==
  LET b == SkipWs(s, 1)
      a == IF At(s, b) \in {"+", "-"} THEN b + 1 ELSE b
      r == RunEnd(s, a, Digits)
      hasPoint == At(s, r) = "."
      f == IF hasPoint THEN RunEnd(s, r + 1, Digits) ELSE r
      intDigits == Sub(s, a, r - 1)
      fracDigits == IF hasPoint THEN Sub(s, r + 1, f - 1) ELSE <<>>
      x == ParseExponent(s, f)
  IN  IF MatchLit(s, a, <<"I", "n", "f", "i", "n", "i", "t", "y">>)
        THEN Infinity(At(s, b) = "-")
      ELSE IF intDigits = <<>> /\ fracDigits = <<>> THEN NaN
      ELSE Decimal(At(s, b) = "-", intDigits, fracDigits, IF x.ok THEN x.e ELSE 0)

\* ------------------------------------------------------------------------
\* extractJsonFromLLMResponse, step 1: the candidate block
\* ------------------------------------------------------------------------

\* the backtick (a string literal cannot hold the character itself)
Backtick == "<backtick>"

Fence == <<Backtick, Backtick, Backtick>>

\* text.match(/<fence>(?:json)?\s*([\s\S]*?)\s*<fence>/): [found, group1]
codeBlockMatch(text) ==
  LET o == IndexOfLit(text, 1, Fence)
      a == IF MatchLit(text, o + 3, <<"j", "s", "o", "n">>) THEN o + 7 ELSE o + 3
      b == SkipWs(text, a)
      c == IndexOfLit(text, b, Fence)
  IN  IF o = 0 \/ c = 0 THEN [found |-> FALSE, group1 |-> <<>>]
      ELSE [found |-> TRUE, group1 |-> Sub(text, b, SkipWsBack(text, c - 1))]

\* text.match(/\{[\s\S]*\}/): [found, group0]
jsonBlockMatch(text) ==
  LET f == IndexOfLit(text, 1, <<"{">>)
      l == LastIndexOfChar(text, Len(text), "}")
  IN  IF f = 0 \/ l < f THEN [found |-> FALSE, group0 |-> <<>>]
      ELSE [found |-> TRUE, group0 |-> Sub(text, f, l)]

\* the search with the braces tried before the fence: a defect the priority
\* of C14 must show
LocateJsonBracesFirst(text) ==
  IF jsonBlockMatch(text).found
    THEN [found |-> TRUE, jsonText |-> jsonBlockMatch(text).group0]
  ELSE IF codeBlockMatch(text).found /\ codeBlockMatch(text).group1 # <<>>
    THEN [found |-> TRUE, jsonText |-> codeBlockMatch(text).group1]
  ELSE [found |-> FALSE, jsonText |-> <<>>]

\* the block handed to the sanitizer: [found, jsonText]
LocateJson(text) ==
  IF codeBlockMatch(text).found /\ codeBlockMatch(text).group1 # <<>>
    THEN [found |-> TRUE, jsonText |-> codeBlockMatch(text).group1]
  ELSE IF jsonBlockMatch(text).found
    THEN [found |-> TRUE, jsonText |-> jsonBlockMatch(text).group0]
  ELSE [found |-> FALSE, jsonText |-> <<>>]

\* ------------------------------------------------------------------------
\* Records
\* ------------------------------------------------------------------------

vendorNameKey == <<"v", "e", "n", "d", "o", "r", "N", "a", "m", "e">>
transactionDateKey == <<"t", "r", "a", "n", "s", "a", "c", "t", "i", "o", "n", "D", "a", "t", "e">>
totalAmountKey == <<"t", "o", "t", "a", "l", "A", "m", "o", "u", "n", "t">>
itemsKey == <<"i", "t", "e", "m", "s">>
nameKey == <<"n", "a", "m", "e">>
quantityKey == <<"q", "u", "a", "n", "t", "i", "t", "y">>
priceKey == <<"p", "r", "i", "c", "e">>
UnknownVendor == <<"U", "n", "k", "n", "o", "w", "n", " ", "V", "e", "n", "d", "o", "r">>
UnnamedItem == <<"U", "n", "n", "a", "m", "e", "d", " ", "I", "t", "e", "m">>
UnknownItem == <<"U", "n", "k", "n", "o", "w", "n", " ", "I", "t", "e", "m">>

\* the record { vendorName, transactionDate, totalAmount, items }
Record(vendorName, transactionDate, totalAmount, items) ==
  Obj(<< <<vendorNameKey, vendorName>>, <<transactionDateKey, transactionDate>>,
         <<totalAmountKey, totalAmount>>, <<itemsKey, items>> >>)

\* the item { name, quantity, price }
Item(name, quantity, price) ==
  Obj(<< <<nameKey, name>>, <<quantityKey, quantity>>, <<priceKey, price>> >>)

\* defaultData; nowIso is new Date().toISOString()
defaultData(nowIso) == Record(Str(UnknownVendor), Str(nowIso), Num(0, 0), Arr(<<>>))

\* ------------------------------------------------------------------------
\* validateAndCleanData
\* ------------------------------------------------------------------------

\* item => ({ name, quantity, price }) of the items.map call
CleanItem(item) ==
  Item(OrElse(Get(item, nameKey), Str(UnnamedItem)),
       ParseFloat(ToStringChars(OrElse(Get(item, quantityKey), Str(<<"1">>)))),
       ParseFloat(ToStringChars(OrElse(Get(item, priceKey), Str(<<"0">>)))))

\* [threw, v]: threw where reading a property of a null item raises TypeError
validateAndCleanData(data, nowIso) ==
  IF ~Truthy(data) \/ data.t \notin {"obj", "arr"}
    THEN [threw |-> FALSE, v |-> defaultData(nowIso)]
  ELSE LET items == Get(data, itemsKey)
       IN  IF items.t = "arr" /\ \E n \in 1..Len(items.a) :
                                   items.a[n].t \in {"null", "undefined"}
             THEN [threw |-> TRUE, v |-> Undefined]
           ELSE [threw |-> FALSE,
                 v |-> Record(
                   OrElse(Get(data, vendorNameKey), Str(UnknownVendor)),
                   OrElse(Get(data, transactionDateKey), Str(nowIso)),
                   ParseFloat(ToStringChars(
                     OrElse(Get(data, totalAmountKey), Str(<<"0">>)))),
                   IF items.t = "arr"
                     THEN Arr([n \in 1..Len(items.a) |-> CleanItem(items.a[n])])
                     ELSE Arr(<<>>))]

\* ------------------------------------------------------------------------
\* extractDataWithRegex
\* ------------------------------------------------------------------------

Quotes == {DQ, SQ}

RECURSIVE RunEndNot(_, _, _)
\* first position >= i whose character is in class C (Len(s)+1 if none)
RunEndNot(s, i, C) ==
  IF i <= Len(s) /\ s[i] \notin C THEN RunEndNot(s, i + 1, C) ELSE i

\* /["']key["']\s*:\s*/ at i: the position after the match, 0 if none
KeyColonEnd(s, i, key) ==
  Bind(i + 1 + Len(key), LAMBDA q :
    IF At(s, i) \in Quotes /\ MatchLit(s, i + 1, key) /\ At(s, q) \in Quotes
      THEN Bind(SkipWs(s, q + 1), LAMBDA c :
             IF At(s, c) = ":" THEN SkipWs(s, c + 1) ELSE 0)
    ELSE 0)

\* match is null
NoField == [found |-> FALSE, at |-> 0, group1 |-> <<>>]

FieldAt(i, group1) == [found |-> TRUE, at |-> i, group1 |-> group1]

\* text.match(regex): of the matches at the positions of the text, the leftmost
Leftmost(matches) ==
  Bind({m \in matches : m.found}, LAMBDA hits :
    IF hits = {} THEN NoField
    ELSE CHOOSE m \in hits : \A o \in hits : m.at <= o.at)

\* text.match(/["']key["']\s*:\s*["']([^"']+)["']/): [found, at, group1]
StringFieldMatch(s, key) ==
  LET MatchAt(i) ==
        Bind(KeyColonEnd(s, i, key), LAMBDA v :
          IF v = 0 \/ At(s, v) \notin Quotes THEN NoField
          ELSE Bind(RunEndNot(s, v + 1, Quotes), LAMBDA e :
                 IF e > v + 1 /\ e <= Len(s) THEN FieldAt(i, Sub(s, v + 1, e - 1))
                 ELSE NoField))
  IN  Leftmost({MatchAt(i) : i \in 1..Len(s)})

\* text.match(/["']key["']\s*:\s*([\d.]+)/): [found, at, group1]
NumberFieldMatch(s, key) ==
  LET MatchAt(i) ==
        Bind(KeyColonEnd(s, i, key), LAMBDA v :
          IF v = 0 THEN NoField
          ELSE Bind(RunEnd(s, v, Digits \cup {"."}), LAMBDA e :
                 IF e > v THEN FieldAt(i, Sub(s, v, e - 1)) ELSE NoField))
  IN  Leftmost({MatchAt(i) : i \in 1..Len(s)})

\* text.match(/["']items["']\s*:\s*\[([\s\S]*?)\]/): [found, at, group1]
itemsMatch(s) ==
  LET MatchAt(i) ==
        Bind(KeyColonEnd(s, i, itemsKey), LAMBDA v :
          IF v = 0 \/ At(s, v) # "[" THEN NoField
          ELSE Bind(IndexOfLit(s, v + 1, <<"]">>), LAMBDA e :
                 IF e > 0 THEN FieldAt(i, Sub(s, v + 1, e - 1)) ELSE NoField))
  IN  Leftmost({MatchAt(i) : i \in 1..Len(s)})

\* /\}\s*,\s*\{/ at i: the end of the match, 0 if none
ItemBoundaryEnd(s, i) ==
  IF At(s, i) # "}" THEN 0
  ELSE Bind(SkipWs(s, i + 1), LAMBDA c :
         IF At(s, c) # "," THEN 0
         ELSE Bind(SkipWs(s, c + 1), LAMBDA b : IF At(s, b) = "{" THEN b ELSE 0))

\* itemsMatch[1].split(/\}\s*,\s*\{/)
SplitItems(s) ==
  LET step(st, p) ==
        IF p < st.i THEN st
        ELSE Bind(ItemBoundaryEnd(s, p), LAMBDA e :
               IF e >= p
                 THEN [i |-> e + 1, cur |-> <<>>, parts |-> Append(st.parts, st.cur)]
               ELSE [st EXCEPT !.i = p + 1, !.cur = Append(@, s[p])])
  IN  Bind(FoldIdx(step, [i |-> 1, cur |-> <<>>, parts |-> <<>>], Len(s)), LAMBDA end :
        Append(end.parts, end.cur))

\* the braces put back around one piece of the split
WithBraces(itemStr) ==
  Bind(IF At(Trim(itemStr), 1) = "{" THEN itemStr ELSE <<"{">> \o itemStr, LAMBDA a :
  Bind(Trim(a), LAMBDA t :
    IF At(t, Len(t)) = "}" THEN a ELSE Append(a, "}")))

\* the three name/quantity/price patterns, when neither parser takes the item
ItemFromFields(sanitizedItemStr) ==
  Bind(StringFieldMatch(sanitizedItemStr, nameKey), LAMBDA nameMatch :
  Bind([key \in {quantityKey, priceKey} |-> NumberFieldMatch(sanitizedItemStr, key)],
       LAMBDA numberMatch :
    Item(IF nameMatch.found THEN Str(nameMatch.group1) ELSE Str(UnknownItem),
         IF numberMatch[quantityKey].found
           THEN ParseFloat(numberMatch[quantityKey].group1) ELSE Num(1, 0),
         IF numberMatch[priceKey].found
           THEN ParseFloat(numberMatch[priceKey].group1) ELSE Num(0, 0))))

\* itemStr => ... of the itemStrings.map call
ExtractItem(itemStr, sanitizerThrows) ==
  Bind(sanitizeJsonString(WithBraces(itemStr), sanitizerThrows), LAMBDA sanitizedItemStr :
  Bind(JSONParse(sanitizedItemStr), LAMBDA strict :
    IF strict.ok THEN strict.v
    ELSE Bind(JSON5Parse(sanitizedItemStr), LAMBDA lenient :
           IF lenient.ok THEN lenient.v ELSE ItemFromFields(sanitizedItemStr))))

extractDataWithRegex(text, default, sanitizerThrows) ==
  Bind([key \in {vendorNameKey, transactionDateKey} |-> StringFieldMatch(text, key)],
       LAMBDA stringMatch :
  Bind(NumberFieldMatch(text, totalAmountKey), LAMBDA totalMatch :
  Bind(itemsMatch(text), LAMBDA items :
  Bind(SplitItems(items.group1), LAMBDA itemStrings :
    Record(
      IF stringMatch[vendorNameKey].found THEN Str(stringMatch[vendorNameKey].group1)
        ELSE Get(default, vendorNameKey),
      IF stringMatch[transactionDateKey].found
        THEN Str(stringMatch[transactionDateKey].group1)
        ELSE Get(default, transactionDateKey),
      IF totalMatch.found THEN ParseFloat(totalMatch.group1)
        ELSE Get(default, totalAmountKey),
      IF items.found /\ items.group1 # <<>>
        THEN Arr([n \in 1..Len(itemStrings) |->
                    ExtractItem(itemStrings[n], sanitizerThrows)])
        ELSE Arr(<<>>))))))

\* ------------------------------------------------------------------------
\* Dates
\* ------------------------------------------------------------------------

\* a Date: the fields it was made from (month from 0) and what they count
\* in: "local" (the Date(y, m, d, ...) constructor), "utc", "epoch"
\* (milliseconds in ms), or "invalid" (the time value is NaN)
DateVal(zone, y, mo, d, h, mi, s, ms) ==
  [t |-> "date", zone |-> zone, y |-> y, mo |-> mo, d |-> d,
   h |-> h, mi |-> mi, s |-> s, ms |-> ms]

InvalidDate == DateVal("invalid", 0, 0, 0, 0, 0, 0, 0)

\* !isNaN(date.getTime())
IsValidDate(v) == v.t = "date" /\ v.zone # "invalid"

\* new Date(year, month, day, hour, minute, second); years 0..99 count from 1900
NewDateLocal(y, mo, d, h, mi, s) ==
  DateVal("local", IF y \in 0..99 THEN 1900 + y ELSE y, mo, d, h, mi, s, 0)

\* new Date() when the clock reads c seconds into the hour
NewDateNow(c) == DateVal("utc", 2026, 10, 5, 4, 0, c, 0)

\* toISOString cut at the "T", the day alone: a defect the default date of
\* C6 must show
toISODay(date) ==
  PadLeft(NatToDigits(date.y), 4) \o <<"-">> \o PadLeft(NatToDigits(date.mo + 1), 2)
    \o <<"-">> \o PadLeft(NatToDigits(date.d), 2)

\* Date.prototype.toISOString: YYYY-MM-DDTHH:mm:ss.sssZ
toISOString(date) ==
  PadLeft(NatToDigits(date.y), 4) \o <<"-">> \o PadLeft(NatToDigits(date.mo + 1), 2)
    \o <<"-">> \o PadLeft(NatToDigits(date.d), 2) \o <<"T">>
    \o PadLeft(NatToDigits(date.h), 2) \o <<":">> \o PadLeft(NatToDigits(date.mi), 2)
    \o <<":">> \o PadLeft(NatToDigits(date.s), 2) \o <<".">>
    \o PadLeft(NatToDigits(date.ms), 3) \o <<"Z">>

\* the characters i..j of s are digits
AllDigits(s, i, j) == j <= Len(s) /\ \A n \in i..j : s[n] \in Digits

IntAt(s, i, j) == DigitsToInt(Sub(s, i, j), 0)

\* (\d{1,2}) at i: how many digits, 0 if none
ShortRunLen(s, i) ==
  IF AllDigits(s, i, i + 1) THEN 2 ELSE IF AllDigits(s, i, i) THEN 1 ELSE 0

\* (\d{1,2}) followed by the character sep, at i: how many digits, 0 if none
ShortNumberLen(s, i, sep) ==
  IF AllDigits(s, i, i + 1) /\ At(s, i + 2) = sep THEN 2
  ELSE IF AllDigits(s, i, i) /\ At(s, i + 1) = sep THEN 1
  ELSE 0

\* the groups of a time part that did not take part in the match
NoTime(end) == [h |-> 0, mi |-> 0, s |-> 0, end |-> end]

\* (?:\s+(\d{1,2}):(\d{1,2})(?::(\d{1,2}))?)? at i: [h, mi, s, end]
TimePart(s, i) ==
  Bind(SkipWs(s, i), LAMBDA a :
  Bind(ShortNumberLen(s, a, ":"), LAMBDA hl :
  Bind(a + hl + 1, LAMBDA b :
  Bind(ShortRunLen(s, b), LAMBDA ml :
  Bind(b + ml, LAMBDA c :
  Bind(IF At(s, c) # ":" THEN 0 ELSE ShortRunLen(s, c + 1), LAMBDA sl :
    IF a = i \/ hl = 0 \/ ml = 0 THEN NoTime(i - 1)
    ELSE [h |-> IntAt(s, a, a + hl - 1), mi |-> IntAt(s, b, b + ml - 1),
          s |-> IF sl = 0 THEN 0 ELSE IntAt(s, c + 1, c + sl),
          end |-> IF sl = 0 THEN c - 1 ELSE c + sl]))))))

\* match is null
NoMatch ==
  [ok |-> FALSE, at |-> 0, n1 |-> 0, n2 |-> 0, n3 |-> 0,
   h |-> 0, mi |-> 0, s |-> 0, end |-> 0]

\* (\d{1,2}) sep (\d{1,2}) sep (\d{yearLen}), with the time part if withTime,
\* at i: [ok, at, n1, n2, n3, h, mi, s, end]
ThreeNumbersAt(s, i, sep, yearLen, withTime) ==
  Bind(ShortNumberLen(s, i, sep), LAMBDA l1 :
  Bind(i + l1 + 1, LAMBDA j :
  Bind(ShortNumberLen(s, j, sep), LAMBDA l2 :
  Bind(j + l2 + 1, LAMBDA k :
    IF l1 = 0 \/ l2 = 0 \/ ~AllDigits(s, k, k + yearLen - 1) THEN NoMatch
    ELSE Bind(IF withTime THEN TimePart(s, k + yearLen) ELSE NoTime(k + yearLen - 1),
              LAMBDA tm :
           [ok |-> TRUE, at |-> i,
            n1 |-> IntAt(s, i, i + l1 - 1), n2 |-> IntAt(s, j, j + l2 - 1),
            n3 |-> IntAt(s, k, k + yearLen - 1),
            h |-> tm.h, mi |-> tm.mi, s |-> tm.s, end |-> tm.end])))))

\* dateStr.match(regex): the leftmost match of the pattern
FormatMatch(s, sep, yearLen, withTime) ==
  Bind({m \in {ThreeNumbersAt(s, i, sep, yearLen, withTime) : i \in 1..Len(s)} : m.ok},
       LAMBDA hits :
    IF hits = {} THEN NoMatch
    ELSE CHOOSE m \in hits : \A o \in hits : m.at <= o.at)

\* the numbers at 1..4, 6..7, 9..10, ... of an ISO text
IsoField(s, i, j) == IF AllDigits(s, i, j) THEN IntAt(s, i, j) ELSE -1

\* the ISO forms YYYY-MM-DD and YYYY-MM-DDTHH:mm:ss[.sss]Z
IsoParse(s) ==
  Bind([n \in 1..7 |-> IsoField(s, <<1, 6, 9, 12, 15, 18, 21>>[n],
                                   <<4, 7, 10, 13, 16, 19, 23>>[n])], LAMBDA f :
  Bind(/\ f[1] >= 0 /\ At(s, 5) = "-" /\ f[2] \in 1..12
       /\ At(s, 8) = "-" /\ f[3] \in 1..31, LAMBDA dateOk :
  Bind(/\ At(s, 11) = "T" /\ f[4] \in 0..23 /\ At(s, 14) = ":"
       /\ f[5] \in 0..59 /\ At(s, 17) = ":" /\ f[6] \in 0..59, LAMBDA timeOk :
  Bind(At(s, 20) = "." /\ f[7] >= 0 /\ At(s, 24) = "Z" /\ Len(s) = 24, LAMBDA msOk :
    IF dateOk /\ Len(s) = 10
      THEN DateVal("utc", f[1], f[2] - 1, f[3], 0, 0, 0, 0)
    ELSE IF dateOk /\ timeOk /\ (msOk \/ (At(s, 20) = "Z" /\ Len(s) = 20))
      THEN DateVal("utc", f[1], f[2] - 1, f[3], f[4], f[5], f[6],
                   IF msOk THEN f[7] ELSE 0)
    ELSE InvalidDate))))

\* the separators and year lengths the engine's fallback takes
LegacyForms == {<<"/", 4>>, <<"/", 2>>, <<"-", 4>>, <<"-", 2>>}

\* the engine's fallback for text that is not ISO: month, day, year (two
\* digits: 50..99 count from 1900, 0..49 from 2000), "/" or "-" between
\* them, an optional time after; the whole text
LegacyParse(s) ==
  LET Try(sep, yearLen) ==
        Bind(ThreeNumbersAt(s, 1, sep, yearLen, TRUE), LAMBDA m :
          IF m.ok /\ m.end = Len(s) /\ m.n1 \in 1..12 /\ m.n2 \in 1..31
             /\ m.h <= 23 /\ m.mi <= 59 /\ m.s <= 59
          THEN NewDateLocal(
                 IF yearLen = 4 THEN m.n3
                 ELSE IF m.n3 < 50 THEN 2000 + m.n3 ELSE 1900 + m.n3,
                 m.n1 - 1, m.n2, m.h, m.mi, m.s)
          ELSE InvalidDate)
  IN  Bind({d \in {Try(form[1], form[2]) : form \in LegacyForms} : IsValidDate(d)},
           LAMBDA found :
        IF found = {} THEN InvalidDate ELSE CHOOSE d \in found : TRUE)

\* new Date(text)
NewDateFromText(text) ==
  Bind(Trim(text), LAMBDA s :
  Bind(IsoParse(s), LAMBDA iso :
    IF IsValidDate(iso) THEN iso ELSE LegacyParse(s)))

\* new Date(value)
NewDateFrom(v) ==
  CASE v.t \in {"str", "arr", "obj"} -> NewDateFromText(ToStringChars(v))
    [] v.t = "num" -> DateVal("epoch", 0, 0, 0, 0, 0, 0, v.m \div Pow10(v.k))
    [] v.t = "bool" -> DateVal("epoch", 0, 0, 0, 0, 0, 0, IF v.b THEN 1 ELSE 0)
    [] v.t = "null" -> DateVal("epoch", 0, 0, 0, 0, 0, 0, 0)
    [] OTHER -> InvalidDate

\* the three entries of formats: regex and fn
FormatDMYY(s) ==
  Bind(FormatMatch(s, "/", 2, TRUE), LAMBDA m :
    [matched |-> m.ok,
     date |-> NewDateLocal(2000 + m.n3, m.n2 - 1, m.n1, m.h, m.mi, m.s)])

FormatMDYYYY(s) ==
  Bind(FormatMatch(s, "/", 4, FALSE), LAMBDA m :
    [matched |-> m.ok, date |-> NewDateLocal(m.n3, m.n1 - 1, m.n2, 0, 0, 0)])

FormatDMYYYYDash(s) ==
  Bind(FormatMatch(s, "-", 4, FALSE), LAMBDA m :
    [matched |-> m.ok, date |-> NewDateLocal(m.n3, m.n2 - 1, m.n1, 0, 0, 0)])

\* the loop over formats with the four-digit year tried before the two-digit
\* one: a defect the order of C13 must show
FormatLoopLongYearFirst(s, now) ==
  Bind(FormatMDYYYY(s), LAMBDA second :
    IF second.matched THEN second.date
    ELSE Bind(FormatDMYY(s), LAMBDA first :
      IF first.matched THEN first.date
      ELSE Bind(FormatDMYYYYDash(s), LAMBDA third :
        IF third.matched THEN third.date ELSE now)))

\* the loop over formats: the first whose regex matches gives the date
FormatLoop(s, now) ==
  Bind(FormatDMYY(s), LAMBDA first :
    IF first.matched THEN first.date
    ELSE Bind(FormatMDYYYY(s), LAMBDA second :
      IF second.matched THEN second.date
      ELSE Bind(FormatDMYYYYDash(s), LAMBDA third :
        IF third.matched THEN third.date ELSE now)))

\* parseDate without the isNaN test and the formats after it: a defect the
\* dates of C4 must show
parseDateUnchecked(dateStr, now) ==
  IF ~Truthy(dateStr) THEN [threw |-> FALSE, date |-> now]
  ELSE IF dateStr.t = "date" THEN [threw |-> FALSE, date |-> dateStr]
  ELSE [threw |-> FALSE, date |-> NewDateFrom(dateStr)]

\* parseDate: [threw, date]; threw where dateStr.match is not a function
parseDate(dateStr, now) ==
  IF ~Truthy(dateStr) THEN [threw |-> FALSE, date |-> now]
  ELSE IF dateStr.t = "date" THEN [threw |-> FALSE, date |-> dateStr]
  ELSE Bind(NewDateFrom(dateStr), LAMBDA parsedDate :
    IF IsValidDate(parsedDate) THEN [threw |-> FALSE, date |-> parsedDate]
    ELSE IF dateStr.t # "str" THEN [threw |-> TRUE, date |-> InvalidDate]
    ELSE [threw |-> FALSE, date |-> FormatLoop(dateStr.s, now)])

\* ------------------------------------------------------------------------
\* The responses of the model that the pipeline is run on
\* ------------------------------------------------------------------------

\* the most items a generated response lists
MaxItems == 2

\* the most responses the service receives
MaxClock == 2

\* texts of a vendorName value
\* "Al"
VendorPlain == <<"\"", "A", "l", "\"">>
\* "Joe's"
VendorApostrophe == <<"\"", "J", "o", "e", "'", "s", "\"">>
\* ""
VendorEmpty == <<"\"", "\"">>
\* "Cafe: Al"
VendorColon == <<"\"", "C", "a", "f", "e", ":", " ", "A", "l", "\"">>
\* 'Al'
VendorSingleQuoted == <<"'", "A", "l", "'">>
\* Al Cafe
VendorBare == <<"A", "l", " ", "C", "a", "f", "e">>
\* "A\"l"
VendorEscapedQuote == <<"\"", "A", "\\", "\"", "l", "\"">>
\* 7
VendorNumber == <<"7">>
\* "A"l"
VendorInnerQuote == <<"\"", "A", "\"", "l", "\"">>
\* "A\\'l"
VendorEscapedBackslash == <<"\"", "A", "\\", "\\", "'", "l", "\"">>

VendorTexts == {VendorPlain, VendorApostrophe, VendorEmpty, VendorColon, VendorSingleQuoted, VendorBare, VendorEscapedQuote, VendorNumber, VendorInnerQuote, VendorEscapedBackslash}

\* texts of a transactionDate value
\* "2025-05-18"
DateIso == <<"\"", "2", "0", "2", "5", "-", "0", "5", "-", "1", "8", "\"">>
\* "2025-05-18T10:30:00Z"
DateIsoTime == <<"\"", "2", "0", "2", "5", "-", "0", "5", "-", "1", "8", "T", "1", "0", ":", "3", "0", ":", "0", "0", "Z", "\"">>
\* "18/05/25"
DateDMYY == <<"\"", "1", "8", "/", "0", "5", "/", "2", "5", "\"">>
\* "18/05/25 10:30:00"
DateDMYYTime == <<"\"", "1", "8", "/", "0", "5", "/", "2", "5", " ", "1", "0", ":", "3", "0", ":", "0", "0", "\"">>
\* "05/18/2025"
DateMDYYYY == <<"\"", "0", "5", "/", "1", "8", "/", "2", "0", "2", "5", "\"">>
\* "18/05/2025"
DateDMYYYY == <<"\"", "1", "8", "/", "0", "5", "/", "2", "0", "2", "5", "\"">>
\* "18-05-2025"
DateDashDMYYYY == <<"\"", "1", "8", "-", "0", "5", "-", "2", "0", "2", "5", "\"">>
\* "soon"
DateWords == <<"\"", "s", "o", "o", "n", "\"">>
\* {}
DateObject == <<"{", "}">>
\* []
DateArray == <<"[", "]">>
\* 12
DateNumber == <<"1", "2">>
\* true
DateTrue == <<"t", "r", "u", "e">>

DateTexts == {DateIso, DateIsoTime, DateDMYY, DateDMYYTime, DateMDYYYY, DateDMYYYY, DateDashDMYYYY, DateWords, DateObject, DateArray, DateNumber, DateTrue}

\* texts of a totalAmount value
\* 12.5
TotalDecimal == <<"1", "2", ".", "5">>
\* 0
TotalZero == <<"0">>
\* -3
TotalNegative == <<"-", "3">>
\* "abc"
TotalWord == <<"\"", "a", "b", "c", "\"">>
\* "12abc"
TotalPrefix == <<"\"", "1", "2", "a", "b", "c", "\"">>
\* "7"
TotalNumericString == <<"\"", "7", "\"">>
\* true
TotalTrue == <<"t", "r", "u", "e">>
\* null
TotalNull == <<"n", "u", "l", "l">>
\* {}
TotalObject == <<"{", "}">>
\* [5]
TotalArray == <<"[", "5", "]">>
\* .5
TotalLeadingPoint == <<".", "5">>

TotalTexts == {TotalDecimal, TotalZero, TotalNegative, TotalWord, TotalPrefix, TotalNumericString, TotalTrue, TotalNull, TotalObject, TotalArray, TotalLeadingPoint}

\* texts of one element of items
\* {"name":"Tea","quantity":2,"price":1.5}
ItemFull == <<"{", "\"", "n", "a", "m", "e", "\"", ":", "\"", "T", "e", "a", "\"", ",", "\"", "q", "u", "a", "n", "t", "i", "t", "y", "\"", ":", "2", ",", "\"", "p", "r", "i", "c", "e", "\"", ":", "1", ".", "5", "}">>
\* {"name":"Tea"}
ItemNameOnly == <<"{", "\"", "n", "a", "m", "e", "\"", ":", "\"", "T", "e", "a", "\"", "}">>
\* {"quantity":2,"price":1.5}
ItemNoName == <<"{", "\"", "q", "u", "a", "n", "t", "i", "t", "y", "\"", ":", "2", ",", "\"", "p", "r", "i", "c", "e", "\"", ":", "1", ".", "5", "}">>
\* {"name":"Tea","quantity":0,"price":0}
ItemZero == <<"{", "\"", "n", "a", "m", "e", "\"", ":", "\"", "T", "e", "a", "\"", ",", "\"", "q", "u", "a", "n", "t", "i", "t", "y", "\"", ":", "0", ",", "\"", "p", "r", "i", "c", "e", "\"", ":", "0", "}">>
\* {"name":"Tea","quantity":-1,"price":2}
ItemNegative == <<"{", "\"", "n", "a", "m", "e", "\"", ":", "\"", "T", "e", "a", "\"", ",", "\"", "q", "u", "a", "n", "t", "i", "t", "y", "\"", ":", "-", "1", ",", "\"", "p", "r", "i", "c", "e", "\"", ":", "2", "}">>
\* {"name":"Tea","quantity":"x","price":2}
ItemWordQuantity == <<"{", "\"", "n", "a", "m", "e", "\"", ":", "\"", "T", "e", "a", "\"", ",", "\"", "q", "u", "a", "n", "t", "i", "t", "y", "\"", ":", "\"", "x", "\"", ",", "\"", "p", "r", "i", "c", "e", "\"", ":", "2", "}">>
\* null
ItemNull == <<"n", "u", "l", "l">>
\* {name:'Tea', price:1.5}
ItemLoose == <<"{", "n", "a", "m", "e", ":", "'", "T", "e", "a", "'", ",", " ", "p", "r", "i", "c", "e", ":", "1", ".", "5", "}">>
\* {"name":"Tea" "price":1.5 ?}
ItemBroken == <<"{", "\"", "n", "a", "m", "e", "\"", ":", "\"", "T", "e", "a", "\"", " ", "\"", "p", "r", "i", "c", "e", "\"", ":", "1", ".", "5", " ", "?", "}">>

ItemTexts == {ItemFull, ItemNameOnly, ItemNoName, ItemZero, ItemNegative, ItemWordQuantity, ItemNull, ItemLoose, ItemBroken}

\* a property neither field of a receipt, and what stands around an object
\* "tip":.5
DefectLenient == <<"\"", "t", "i", "p", "\"", ":", ".", "5">>
\* "tip":?
DefectBroken == <<"\"", "t", "i", "p", "\"", ":", "?">>
\* Here is the data: 
ProseBefore == <<"H", "e", "r", "e", " ", "i", "s", " ", "t", "h", "e", " ", "d", "a", "t", "a", ":", " ">>
\*  Hope it helps.
ProseAfter == <<" ", "H", "o", "p", "e", " ", "i", "t", " ", "h", "e", "l", "p", "s", ".">>
\* <backtick><backtick><backtick>json\n
FenceOpenText == <<Backtick, Backtick, Backtick, "j", "s", "o", "n", "\n">>
\* \n<backtick><backtick><backtick>
FenceCloseText == <<"\n", Backtick, Backtick, Backtick>>
\* 
TextEmpty == <<>>
\* Sorry, I cannot read this receipt.
TextProse == <<"S", "o", "r", "r", "y", ",", " ", "I", " ", "c", "a", "n", "n", "o", "t", " ", "r", "e", "a", "d", " ", "t", "h", "i", "s", " ", "r", "e", "c", "e", "i", "p", "t", ".">>
\* <backtick><backtick><backtick>\nno receipt found\n<backtick><backtick><backtick>
TextFencedProse == <<Backtick, Backtick, Backtick, "\n", "n", "o", " ", "r", "e", "c", "e", "i", "p", "t", " ", "f", "o", "u", "n", "d", "\n", Backtick, Backtick, Backtick>>
\* <backtick><backtick><backtick>json\nvendorName: 'Al', totalAmount: 5\n<backtick><backtick><backtick>
TextFencedFields == <<Backtick, Backtick, Backtick, "j", "s", "o", "n", "\n", "v", "e", "n", "d", "o", "r", "N", "a", "m", "e", ":", " ", "'", "A", "l", "'", ",", " ", "t", "o", "t", "a", "l", "A", "m", "o", "u", "n", "t", ":", " ", "5", "\n", Backtick, Backtick, Backtick>>
\* <backtick><backtick><backtick>json\n<backtick><backtick><backtick>
TextEmptyFence == <<Backtick, Backtick, Backtick, "j", "s", "o", "n", "\n", Backtick, Backtick, Backtick>>
\* total { 5
TextOnlyOpenBrace == <<"t", "o", "t", "a", "l", " ", "{", " ", "5">>
\* } then {
TextCloseBeforeOpen == <<"}", " ", "t", "h", "e", "n", " ", "{">>
\* <backtick><backtick><backtick> <backtick><backtick><backtick> {"vendorName":"Al"}
TextEmptyFenceThenObject == <<Backtick, Backtick, Backtick, " ", Backtick, Backtick, Backtick, " ", "{", "\"", "v", "e", "n", "d", "o", "r", "N", "a", "m", "e", "\"", ":", "\"", "A", "l", "\"", "}">>
\* {"vendorName":"Al"} <backtick><backtick><backtick>json\n{"vendorName":"Bo"}\n<backtick><backtick><backtick>
TextFenceAndObject == <<"{", "\"", "v", "e", "n", "d", "o", "r", "N", "a", "m", "e", "\"", ":", "\"", "A", "l", "\"", "}", " ", Backtick, Backtick, Backtick, "j", "s", "o", "n", "\n", "{", "\"", "v", "e", "n", "d", "o", "r", "N", "a", "m", "e", "\"", ":", "\"", "B", "o", "\"", "}", "\n", Backtick, Backtick, Backtick>>

RECURSIVE JoinTexts(_, _)
\* the non-empty texts of parts with sep between them
JoinTexts(parts, sep) ==
  IF parts = <<>> THEN <<>>
  ELSE IF Head(parts) = <<>> THEN JoinTexts(Tail(parts), sep)
  ELSE IF JoinTexts(Tail(parts), sep) = <<>> THEN Head(parts)
  ELSE Head(parts) \o sep \o JoinTexts(Tail(parts), sep)

\* "key":value, nothing when there is no value
FieldText(key, value) ==
  IF value = <<>> THEN <<>> ELSE <<DQ>> \o key \o <<DQ, ":">> \o value

\* [first, ordinary, ...]: n elements, the first one first
ItemsText(first, n) ==
  <<"[">> \o JoinTexts([k \in 1..n |-> IF k = 1 THEN first ELSE ItemFull], <<",">>)
    \o <<"]">>

\* the object { extra, vendorName, transactionDate, totalAmount, items }
ObjectText(extra, vendor, date, total, items) ==
  <<"{">> \o JoinTexts(<<extra, FieldText(vendorNameKey, vendor),
                         FieldText(transactionDateKey, date),
                         FieldText(totalAmountKey, total),
                         FieldText(itemsKey, items)>>, <<",">>) \o <<"}">>

ExtraTexts == {<<>>, DefectLenient, DefectBroken}

ItemsTexts ==
  {<<>>, <<"[", "]">>} \cup {ItemsText(first, n) : first \in ItemTexts, n \in 1..MaxItems}

\* objects that differ from an ordinary receipt in one field
ObjectTexts ==
  UNION {
    {ObjectText(x, v, DateIso, TotalDecimal, ItemsText(ItemFull, 1)) :
       v \in VendorTexts \cup {<<>>}, x \in ExtraTexts},
    {ObjectText(x, VendorPlain, d, TotalDecimal, ItemsText(ItemFull, 1)) :
       d \in DateTexts \cup {<<>>}, x \in ExtraTexts},
    {ObjectText(x, VendorPlain, DateIso, a, ItemsText(ItemFull, 1)) :
       a \in TotalTexts \cup {<<>>}, x \in ExtraTexts},
    {ObjectText(x, VendorPlain, DateIso, TotalDecimal, i) :
       i \in ItemsTexts, x \in ExtraTexts} }

\* an object as the model sends it: alone, in prose, or fenced
Wrapped(object) ==
  {object, ProseBefore \o object \o ProseAfter,
   ProseBefore \o FenceOpenText \o object \o FenceCloseText}

\* responses with no object at all, or with a fence that holds none
OtherTexts ==
  {TextEmpty, TextProse, TextFencedProse, TextFencedFields, TextEmptyFence,
   TextOnlyOpenBrace, TextCloseBeforeOpen, TextEmptyFenceThenObject,
   TextFenceAndObject}

RawTexts == OtherTexts \cup UNION {Wrapped(o) : o \in ObjectTexts}

\* ------------------------------------------------------------------------
\* scanReceipt, from the response of the model to the receipt data
\* ------------------------------------------------------------------------

VARIABLES
  pc,               \* where scanReceipt stands
  clock,            \* the time, read by new Date()
  text,             \* aiResponse
  jsonText,         \* the candidate block
  faulted,          \* a call of sanitizeJsonString ended in its catch block
  sanitizedJson,    \* what sanitizeJsonString returned
  attempts,         \* the parsing approaches run so far, in order
  parsedData,       \* what the parser of the last approach returned
  extractedData,    \* what extractJsonFromLLMResponse returned
  outcome,          \* how scanReceipt ended: receiptData, or an exception
  request,          \* imagePath and userId of the scan the controller asked for
  store,            \* the receipts collection, oldest document first
  nextId,           \* how many _id values the collection has given out
  response          \* how the last call of the service or the controller ended

\* what the receipts API adds to a scan
api == <<request, store, nextId, response>>

vars ==
  <<pc, clock, text, jsonText, faulted, sanitizedJson, attempts, parsedData,
    extractedData, outcome, request, store, nextId, response>>

\* no text yet
None == <<>>

\* scanReceipt has not ended
NoOutcome == [raised |-> FALSE, receiptData |-> Undefined]

\* one approach of step 3: parsed where the parser took the text, cleaned
\* where validateAndCleanData then returned
Attempt(approach, parsed, cleaned) ==
  [approach |-> approach, parsed |-> parsed, cleaned |-> cleaned]

\* new Date() during this scan
now == NewDateNow(clock)

\* scanReceipt was not called by the controller
NoRequest == [imagePath |-> <<>>, userId |-> ""]

\* no call has ended yet
NoResponse == [op |-> "", status |-> "", docs |-> <<>>]

Init ==
  /\ pc = "idle"
  /\ clock = 0
  /\ text = None
  /\ jsonText = None
  /\ faulted = FALSE
  /\ sanitizedJson = None
  /\ attempts = <<>>
  /\ parsedData = Undefined
  /\ extractedData = Undefined
  /\ outcome = NoOutcome
  /\ request = NoRequest
  /\ store = <<>>
  /\ nextId = 0
  /\ response = NoResponse

\* the model answers: scanReceipt has aiResponse and calls
\* extractJsonFromLLMResponse
Answer(aiResponse) ==
  /\ pc = "idle"
  /\ clock < MaxClock
  /\ clock' = clock + 1
  /\ text' = aiResponse
  /\ pc' = "locate"
  /\ UNCHANGED <<jsonText, faulted, sanitizedJson, attempts, parsedData,
                 extractedData, outcome>>

\* scanReceipt called on its own
Receive(aiResponse) == Answer(aiResponse) /\ UNCHANGED api

\* step 1: the fenced block, else the span of the braces, else defaultData
Locate ==
  /\ pc = "locate"
  /\ IF LocateJson(text).found
       THEN /\ jsonText' = LocateJson(text).jsonText
            /\ pc' = "sanitize"
            /\ UNCHANGED extractedData
       ELSE /\ extractedData' = defaultData(toISOString(now))
            /\ pc' = "format"
            /\ UNCHANGED jsonText
  /\ UNCHANGED <<clock, text, faulted, sanitizedJson, attempts, parsedData, outcome>>
  /\ UNCHANGED api

\* step 2; threw: the sanitizer's try block has thrown
Sanitize(threw) ==
  /\ pc = "sanitize"
  /\ sanitizedJson' = sanitizeJsonString(jsonText, threw)
  /\ faulted' = threw
  /\ pc' = "strict"
  /\ UNCHANGED <<clock, text, jsonText, attempts, parsedData, extractedData, outcome>>
  /\ UNCHANGED api

\* one of the first two approaches: the parser, then validateAndCleanData,
\* both inside the same try
ParseApproach(approach, parsed, next) ==
  /\ parsedData' = parsed.v
  /\ IF parsed.ok /\ ~validateAndCleanData(parsed.v, toISOString(now)).threw
       THEN /\ attempts' = Append(attempts, Attempt(approach, TRUE, TRUE))
            /\ extractedData' = validateAndCleanData(parsed.v, toISOString(now)).v
            /\ pc' = "format"
       ELSE /\ attempts' = Append(attempts, Attempt(approach, parsed.ok, FALSE))
            /\ pc' = next
            /\ UNCHANGED extractedData

\* approach 1: JSON.parse
StrictParse ==
  /\ pc = "strict"
  /\ ParseApproach("strict", JSONParse(sanitizedJson), "lenient")
  /\ UNCHANGED <<clock, text, jsonText, faulted, sanitizedJson, outcome>>
  /\ UNCHANGED api

\* sanitizedJson.replace(/[\u0000-\u001F\u007F-\u009F]/g, '')
cleanerJson(s) == SelectSeq(s, LAMBDA c : c \notin ControlChars)

\* approach 2: JSON5.parse of the text without control characters
LenientParse ==
  /\ pc = "lenient"
  /\ ParseApproach("lenient", JSON5Parse(cleanerJson(sanitizedJson)), "regex")
  /\ UNCHANGED <<clock, text, jsonText, faulted, sanitizedJson, outcome>>
  /\ UNCHANGED api

\* approach 3: extractDataWithRegex; threw: the sanitizer's try block throws
\* for the items
RegexExtract(threw) ==
  /\ pc = "regex"
  /\ attempts' = Append(attempts, Attempt("regex", TRUE, TRUE))
  /\ extractedData' =
       extractDataWithRegex(sanitizedJson, defaultData(toISOString(now)), threw)
  /\ faulted' = threw
  /\ pc' = "format"
  /\ UNCHANGED <<clock, text, jsonText, sanitizedJson, parsedData, outcome>>
  /\ UNCHANGED api

\* receiptData with the total as extracted, not coerced again: a defect the
\* totals of C3 must show
receiptDataUncoerced(data, date) ==
  [vendorName |-> OrElse(Get(data, vendorNameKey), Str(UnknownVendor)),
   transactionDate |-> date,
   totalAmount |-> Get(data, totalAmountKey),
   items |-> IF Get(data, itemsKey).t = "arr" THEN Get(data, itemsKey) ELSE Arr(<<>>)]

\* step 4 of scanReceipt: receiptData of the extracted data and its date
receiptData(data, date) ==
  [vendorName |-> OrElse(Get(data, vendorNameKey), Str(UnknownVendor)),
   transactionDate |-> date,
   totalAmount |-> ParseFloat(ToStringChars(
                     OrElse(Get(data, totalAmountKey), Str(<<"0">>)))),
   items |-> IF Get(data, itemsKey).t = "arr" THEN Get(data, itemsKey) ELSE Arr(<<>>)]

\* step 4; an exception of parseDate leaves scanReceipt as a
\* BadRequestException
Format ==
  /\ pc = "format"
  /\ outcome' =
       Bind(parseDate(Get(extractedData, transactionDateKey), now), LAMBDA date :
         IF date.threw THEN [raised |-> TRUE, receiptData |-> Undefined]
         ELSE [raised |-> FALSE, receiptData |-> receiptData(extractedData, date.date)])
  /\ pc' = "done"
  /\ UNCHANGED <<clock, text, jsonText, faulted, sanitizedJson, attempts, parsedData,
                 extractedData>>
  /\ UNCHANGED api

\* scanReceipt has returned or thrown and its locals are gone; the service
\* waits for the next scan
Return ==
  /\ pc = "done"
  /\ request = NoRequest
  /\ pc' = "idle"
  /\ text' = None
  /\ jsonText' = None
  /\ faulted' = FALSE
  /\ sanitizedJson' = None
  /\ attempts' = <<>>
  /\ parsedData' = Undefined
  /\ extractedData' = Undefined
  /\ outcome' = NoOutcome
  /\ UNCHANGED clock
  /\ UNCHANGED api

Next ==
  \/ \E aiResponse \in RawTexts : Receive(aiResponse)
  \/ Locate
  \/ \E threw \in BOOLEAN : Sanitize(threw)
  \/ StrictParse
  \/ LenientParse
  \/ \E threw \in BOOLEAN : RegexExtract(threw)
  \/ Format
  \/ Return

Spec == Init /\ [][Next]_vars

\* ------------------------------------------------------------------------
\* The receipts collection and the calls of the API
\* ------------------------------------------------------------------------

\* the most documents the collection is ever given
MaxReceipts == 2

\* the userId the controller passes, and another caller of the service
DemoUser == "demo-user"
OtherUser == "other-user"
Users == {DemoUser, OtherUser}

\* an _id: the n-th ObjectId the collection gave out, or a string that is
\* not an ObjectId, such as abc
ObjectId(n) == [wellFormed |-> TRUE, n |-> n]
MalformedId == [wellFormed |-> FALSE, n |-> 0]
Ids == {ObjectId(n) : n \in 1..MaxReceipts} \cup {MalformedId}

\* the fields of the Receipt schema
ReceiptFields ==
  {"vendorName", "transactionDate", "totalAmount", "items", "imageUrl", "userId"}

\* file.path: uploads/receipt-<time>-<random><ext> under the working
\* directory, an absolute path
UploadPath(c) == <<"/", "u", "p", "/", "r", "-">> \o NatToDigits(c)

\* imagePath.replace(/^\./, '')
StripLeadingDot(path) == IF At(path, 1) = "." THEN Tail(path) ELSE path

\* receiptData with no userId: a defect the owner of C15 must show
ScannedReceiptUnowned(data, imagePath, userId) ==
  [vendorName |-> data.vendorName, transactionDate |-> data.transactionDate,
   totalAmount |-> data.totalAmount, items |-> data.items,
   imageUrl |-> Str(StripLeadingDot(imagePath)), userId |-> ""]

\* the receiptData scanReceipt returns: the four fields of the data, then
\* imageUrl and userId
ScannedReceipt(data, imagePath, userId) ==
  [vendorName |-> data.vendorName, transactionDate |-> data.transactionDate,
   totalAmount |-> data.totalAmount, items |-> data.items,
   imageUrl |-> Str(StripLeadingDot(imagePath)), userId |-> userId]

\* bodies of POST /receipts, with the userId the caller is given
CreateBodies ==
  {[vendorName |-> Str(<<"A", "l">>), transactionDate |-> NewDateLocal(2025, 4, 18, 0, 0, 0),
    totalAmount |-> Num(5, 0), items |-> Arr(<<>>), imageUrl |-> Undefined,
    userId |-> u] : u \in Users}

\* bodies of PUT /receipts/:id: some fields of a receipt
UpdateBodies ==
  {[vendorName |-> Str(<<"B", "o">>)], [userId |-> OtherUser],
   [totalAmount |-> Num(7, 0), imageUrl |-> Str(<<"/", "x">>)]}

\* new this.receiptModel(receiptData) with the _id it is given
Document(id, fields) ==
  [f \in ReceiptFields \cup {"id"} |-> IF f = "id" THEN id ELSE fields[f]]

\* the positions of the documents { _id: id, userId }; a string that is not
\* an ObjectId cannot be cast for the filter on _id and the query rejects
Matching(id, userId) ==
  {n \in 1..Len(store) : store[n].id = id /\ store[n].userId = userId}

\* the document with the fields of receiptData set
Updated(doc, fields) ==
  [f \in DOMAIN doc |-> IF f \in DOMAIN fields THEN fields[f] ELSE doc[f]]

\* the documents of a list
Range(docs) == {docs[n] : n \in 1..Len(docs)}

\* the documents in the order given, newest first
Reversed(docs) == [n \in 1..Len(docs) |-> docs[Len(docs) + 1 - n]]

\* how a call ended: ok, NotFound, BadRequest, or the CastError of the query
Ended(op, status, docs) == [op |-> op, status |-> status, docs |-> docs]

\* findAll: the documents of userId, sorted by createdAt, newest first
FindAll(userId) ==
  /\ pc = "idle"
  /\ response' = Ended("findAll", "ok",
                       Reversed(SelectSeq(store, LAMBDA doc : doc.userId = userId)))
  /\ UNCHANGED <<pc, clock, text, jsonText, faulted, sanitizedJson, attempts,
                 parsedData, extractedData, outcome, request, store, nextId>>

\* findOne
FindOne(id, userId) ==
  /\ pc = "idle"
  /\ response' =
       IF ~id.wellFormed THEN Ended("findOne", "CastError", <<>>)
       ELSE IF Matching(id, userId) = {} THEN Ended("findOne", "NotFound", <<>>)
       ELSE Ended("findOne", "ok", <<store[Min(Matching(id, userId))]>>)
  /\ UNCHANGED <<pc, clock, text, jsonText, faulted, sanitizedJson, attempts,
                 parsedData, extractedData, outcome, request, store, nextId>>

\* save() of a new document; rejected: the collection does not take it
Saved(op, fields, rejected) ==
  IF rejected
    THEN /\ response' = Ended(op, "BadRequest", <<>>)
         /\ UNCHANGED <<store, nextId>>
    ELSE /\ nextId' = nextId + 1
         /\ store' = Append(store, Document(ObjectId(nextId + 1), fields))
         /\ response' = Ended(op, "ok", <<Document(ObjectId(nextId + 1), fields)>>)

\* create
Create(fields, rejected) ==
  /\ pc = "idle"
  /\ nextId < MaxReceipts
  /\ Saved("create", fields, rejected)
  /\ UNCHANGED <<pc, clock, text, jsonText, faulted, sanitizedJson, attempts,
                 parsedData, extractedData, outcome, request>>

\* update: findOneAndUpdate with { new: true }
Update(id, userId, fields) ==
  /\ pc = "idle"
  /\ IF ~id.wellFormed
       THEN response' = Ended("update", "CastError", <<>>) /\ UNCHANGED store
     ELSE IF Matching(id, userId) = {}
       THEN response' = Ended("update", "NotFound", <<>>) /\ UNCHANGED store
     ELSE /\ store' = [store EXCEPT ![Min(Matching(id, userId))] = Updated(@, fields)]
          /\ response' = Ended("update", "ok",
                               <<Updated(store[Min(Matching(id, userId))], fields)>>)
  /\ UNCHANGED <<pc, clock, text, jsonText, faulted, sanitizedJson, attempts,
                 parsedData, extractedData, outcome, request, nextId>>

\* remove: findOneAndDelete
Remove(id, userId) ==
  /\ pc = "idle"
  /\ IF ~id.wellFormed
       THEN response' = Ended("remove", "CastError", <<>>) /\ UNCHANGED store
     ELSE IF Matching(id, userId) = {}
       THEN response' = Ended("remove", "NotFound", <<>>) /\ UNCHANGED store
     ELSE /\ store' = SelectSeq(store, LAMBDA doc : doc # store[Min(Matching(id, userId))])
          /\ response' = Ended("remove", "ok", <<store[Min(Matching(id, userId))]>>)
  /\ UNCHANGED <<pc, clock, text, jsonText, faulted, sanitizedJson, attempts,
                 parsedData, extractedData, outcome, request, nextId>>


\* what can end a scan before the model has answered: the image cannot be
\* read, the API key is not configured, the call of the model fails, the
\* response holds no choice
ScanFaults == {"read", "key", "call", "response"}

\* the texts the model answers with where the endpoint is run: an object, an
\* object whose date makes parseDate throw, an object only the regular
\* expressions read, and no object
ApiTexts ==
  {ObjectText(<<>>, VendorPlain, DateIso, TotalDecimal, ItemsText(ItemFull, 1)),
   ObjectText(<<>>, VendorPlain, DateArray, TotalDecimal, ItemsText(ItemFull, 1)),
   ObjectText(DefectBroken, VendorPlain, DateIso, TotalDecimal, ItemsText(ItemNameOnly, 1)),
   TextProse}

\* POST /receipts/scan with no file
ScanNoFile ==
  /\ pc = "idle"
  /\ response' = Ended("scan", "BadRequest", <<>>)
  /\ UNCHANGED <<pc, clock, text, jsonText, faulted, sanitizedJson, attempts,
                 parsedData, extractedData, outcome, request, store, nextId>>

\* POST /receipts/scan with a file, scanReceipt throwing before it has
\* aiResponse: the controller answers with its own BadRequestException
ScanFault(fault) ==
  /\ pc = "idle"
  /\ fault \in ScanFaults
  /\ response' = Ended("scan", "BadRequest", <<>>)
  /\ UNCHANGED <<pc, clock, text, jsonText, faulted, sanitizedJson, attempts,
                 parsedData, extractedData, outcome, request, store, nextId>>

\* POST /receipts/scan with a file: the controller calls scanReceipt with
\* file.path and its userId, and the model answers
Scan(aiResponse) ==
  /\ Answer(aiResponse)
  /\ request' = [imagePath |-> UploadPath(clock + 1), userId |-> DemoUser]
  /\ response' = NoResponse
  /\ UNCHANGED <<store, nextId>>

\* scanReceipt has ended: the controller saves what it returned, or answers
\* with BadRequestException where scanReceipt or create threw
Respond(rejected) ==
  /\ pc = "done"
  /\ request # NoRequest
  /\ IF outcome.raised
       THEN /\ response' = Ended("scan", "BadRequest", <<>>)
            /\ UNCHANGED <<store, nextId>>
       ELSE Saved("scan", ScannedReceipt(outcome.receiptData, request.imagePath,
                                         request.userId), rejected)
  /\ pc' = "idle"
  /\ text' = None
  /\ jsonText' = None
  /\ faulted' = FALSE
  /\ sanitizedJson' = None
  /\ attempts' = <<>>
  /\ parsedData' = Undefined
  /\ extractedData' = Undefined
  /\ outcome' = NoOutcome
  /\ request' = NoRequest
  /\ UNCHANGED clock

\* the scan endpoint: upload, scan, save
ScanNext ==
  \/ ScanNoFile
  \/ \E fault \in ScanFaults : ScanFault(fault)
  \/ \E aiResponse \in ApiTexts : Scan(aiResponse)
  \/ Locate
  \/ \E threw \in BOOLEAN : Sanitize(threw)
  \/ StrictParse
  \/ LenientParse
  \/ \E threw \in BOOLEAN : RegexExtract(threw)
  \/ Format
  \/ \E rejected \in BOOLEAN : Respond(rejected)

ScanSpec == Init /\ [][ScanNext]_vars

\* the calls of the service on the collection, by any user
StoreNext ==
  \/ \E userId \in Users : FindAll(userId)
  \/ \E id \in Ids, userId \in Users : FindOne(id, userId)
  \/ \E fields \in CreateBodies, rejected \in BOOLEAN : Create(fields, rejected)
  \/ \E id \in Ids, userId \in Users, fields \in UpdateBodies : Update(id, userId, fields)
  \/ \E id \in Ids, userId \in Users : Remove(id, userId)

StoreSpec == Init /\ [][StoreNext]_vars

\* ------------------------------------------------------------------------
\* Properties of a scan
\* ------------------------------------------------------------------------

\* scanReceipt has ended with a record
Returned == pc = "done" /\ ~outcome.raised

ReturnedItems == outcome.receiptData.items.a

\* the record of section 3 that stands for "nothing extracted", at this scan
DefaultRecord ==
  [vendorName |-> Str(UnknownVendor), transactionDate |-> now,
   totalAmount |-> Num(0, 0), items |-> Arr(<<>>)]

\* the one approach that ran is the strict parse, and it succeeded
StrictOnly == attempts = <<Attempt("strict", TRUE, TRUE)>>

\* the loosely-typed record the returned one is made from: what the parser
\* of the successful approach returned, else what the regex extraction or
\* the default gave
RawData ==
  IF attempts # <<>> /\ attempts[Len(attempts)].approach # "regex"
    THEN parsedData ELSE extractedData

FiniteNonNegative(v) == v.t = "num" /\ v.m >= 0

\* C1: every scan ends with a record: the extraction and the normalization
\* of its result never raise, whatever the text of the response
C1_NeverRaises == pc = "done" => ~outcome.raised

\* C2: in every returned record, the quantity and the price of every item
\* are finite non-negative numbers
C2_ItemNumbersFiniteNonNegative ==
  (Returned /\ ~faulted) =>
    \A n \in 1..Len(ReturnedItems) :
      /\ FiniteNonNegative(Get(ReturnedItems[n], quantityKey))
      /\ FiniteNonNegative(Get(ReturnedItems[n], priceKey))

\* a number, or a string that is a number literal and nothing else
IsNumeric(v) ==
  \/ v.t = "num"
  \/ v.t = "str" /\ JSONParse(v.s).ok /\ JSONParse(v.s).v.t = "num"

NumericValue(v) == IF v.t = "num" THEN v ELSE JSONParse(v.s).v

\* C3 as stated: the returned totalAmount is a number, the numeric value of
\* the raw field when that is numeric and 0 when it is absent or not numeric
C3_TotalZeroUnlessNumeric ==
  Returned =>
    /\ outcome.receiptData.totalAmount.t = "num"
    /\ outcome.receiptData.totalAmount =
         (IF IsNumeric(Get(RawData, totalAmountKey))
            THEN NumericValue(Get(RawData, totalAmountKey)) ELSE Num(0, 0))

\* parseFloat(String(v || '0')), and 0 where that is NaN
CoercedTotal(v) ==
  Bind(ParseFloat(ToStringChars(OrElse(v, Str(<<"0">>)))), LAMBDA f :
    IF f = NaN THEN Num(0, 0) ELSE f)

\* C3, amended: the returned totalAmount is a number and never NaN: the
\* decimal literal that the string form of the raw field starts with, and 0
\* when the field is absent, falsy, or starts with no such literal
C3_TotalIsLeadingLiteral ==
  Returned =>
    /\ outcome.receiptData.totalAmount.t = "num"
    /\ outcome.receiptData.totalAmount = CoercedTotal(Get(RawData, totalAmountKey))

\* C3 witness: the raw total "12abc" has come back as 12
C3_PrefixTaken ==
  /\ Returned
  /\ Get(RawData, totalAmountKey) = Str(<<"1", "2", "a", "b", "c">>)
  /\ outcome.receiptData.totalAmount = Num(12, 0)

\* values parseDate is given: absent, null, the empty string, a Date, and
\* the strings among the dates of the responses
DateInputs ==
  {Undefined, Null, Str(<<>>), NewDateLocal(2025, 4, 18, 0, 0, 0)}
    \cup {Str(Sub(d, 2, Len(d) - 1)) : d \in {x \in DateTexts : x[1] = DQ}}

\* C4: parseDate returns a valid date for an absent value, a Date and every
\* string, and the transactionDate of every returned record is valid
C4_DateAlwaysValid ==
  /\ Returned => IsValidDate(outcome.receiptData.transactionDate)
  /\ (pc = "done" /\ Get(extractedData, transactionDateKey).t \in {"str", "undefined"})
       => ~outcome.raised
  /\ pc = "format" =>
       \A v \in DateInputs :
         ~parseDate(v, now).threw /\ IsValidDate(parseDate(v, now).date)

\* C4 witness: the date "soon", which no format takes, has come back as the
\* time of the scan
C4_UnreadableDateIsNow ==
  /\ Returned
  /\ Get(extractedData, transactionDateKey) = Str(<<"s", "o", "o", "n">>)
  /\ outcome.receiptData.transactionDate = now

\* C5: every item of a returned record has its three fields, the name of an
\* item that had none being "Unnamed Item" on every path
C5_MissingFieldsTakeDefaults ==
  (Returned /\ ~faulted) =>
    \A n \in 1..Len(ReturnedItems) :
      /\ Get(ReturnedItems[n], quantityKey) # Undefined
      /\ Get(ReturnedItems[n], priceKey) # Undefined
      /\ Get(ReturnedItems[n], nameKey) \notin {Undefined, Str(UnknownItem)}

\* a "{" with a "}" somewhere after it
HasBraceSpan(s) ==
  /\ IndexOfLit(s, 1, <<"{">>) > 0
  /\ LastIndexOfChar(s, Len(s), "}") > IndexOfLit(s, 1, <<"{">>)

\* two fence markers, one after the other
HasFencePair(s) ==
  /\ IndexOfLit(s, 1, Fence) > 0
  /\ IndexOfLit(s, IndexOfLit(s, 1, Fence) + Len(Fence), Fence) > 0

\* C6 as stated: a response with no brace-delimited structure, fenced or
\* not, gives exactly the default record, dated at the scan
C6_NoBracesGivesDefault ==
  (pc = "done" /\ ~faulted /\ ~HasBraceSpan(text)) =>
    ~outcome.raised /\ outcome.receiptData = DefaultRecord

\* C6, amended: a response with no brace-delimited structure and no fenced
\* block gives exactly the default record, dated at the scan
C6_NoBracesNoFenceGivesDefault ==
  (pc = "done" /\ ~HasBraceSpan(text) /\ ~HasFencePair(text)) =>
    ~outcome.raised /\ outcome.receiptData = DefaultRecord

\* C6 witness: "} then {", with braces and no structure, has given the
\* default record
C6_UnpairedBracesGiveDefault ==
  /\ pc = "done"
  /\ text = TextCloseBeforeOpen
  /\ ~outcome.raised
  /\ outcome.receiptData = DefaultRecord

\* a JSON value of the expected shape
ExpectedShape(v) ==
  /\ v.t = "obj"
  /\ Get(v, vendorNameKey).t = "str"
  /\ Get(v, transactionDateKey).t = "str"
  /\ Get(v, totalAmountKey).t = "num"
  /\ Get(v, itemsKey).t = "arr"
  /\ \A n \in 1..Len(Get(v, itemsKey).a) :
       /\ Get(Get(v, itemsKey).a[n], nameKey).t = "str"
       /\ Get(Get(v, itemsKey).a[n], quantityKey).t = "num"
       /\ Get(Get(v, itemsKey).a[n], priceKey).t = "num"

\* the fields of the record are those of the value
SameFields(record, v) ==
  /\ record.vendorName = Get(v, vendorNameKey)
  /\ record.totalAmount = Get(v, totalAmountKey)
  /\ Len(record.items.a) = Len(Get(v, itemsKey).a)
  /\ \A n \in 1..Len(record.items.a) :
       \A key \in {nameKey, quantityKey, priceKey} :
         Get(record.items.a[n], key) = Get(Get(v, itemsKey).a[n], key)

\* C7: a response that is valid JSON of the expected shape comes back
\* through the strict parse alone, with its vendorName, its totalAmount and
\* the name, quantity and price of each item
C7_ValidJsonRoundTrips ==
  (pc = "done" /\ ~faulted /\ JSONParse(text).ok /\ ExpectedShape(JSONParse(text).v)) =>
    /\ ~outcome.raised
    /\ StrictOnly
    /\ SameFields(outcome.receiptData, JSONParse(text).v)

\* C8: the sanitizer leaves the value of valid strict JSON object text as
\* it is
C8_SanitizerKeepsValidJson ==
  (pc = "strict" /\ ~faulted /\ JSONParse(jsonText).ok /\ JSONParse(jsonText).v.t = "obj") =>
    /\ JSONParse(sanitizedJson).ok
    /\ JSONParse(sanitizedJson).v = JSONParse(jsonText).v

\* C9: after a fault in the sanitizer the fallback text is parsed by the
\* strict parse and the record returned is the default record, dated at the
\* scan
C9_FaultGivesDefaultRecord ==
  (pc = "done" /\ faulted /\ sanitizedJson = FallbackText) =>
    /\ ~outcome.raised
    /\ StrictOnly
    /\ outcome.receiptData = DefaultRecord

\* C10: the approaches run in the order strict, lenient, regex, each only
\* after every earlier one has failed to parse the text
C10_FirstParseShortCircuits ==
  \A n \in 1..Len(attempts) :
    /\ attempts[n].approach = <<"strict", "lenient", "regex">>[n]
    /\ \A m \in 1..(n - 1) : ~attempts[m].parsed

\* ------------------------------------------------------------------------
\* Properties of the character loop of the sanitizer
\* ------------------------------------------------------------------------

\* the flags of the loop as it reads each character: flags[i] are inString
\* and inEscape before the character at i is read, pass is the loop itself
TracedStep(s, st, i) ==
  [flags |-> Append(st.flags, [inString |-> st.pass.inString,
                               inEscape |-> st.pass.inEscape]),
   pass  |-> QuotePassStep(s, st.pass, i)]

TracedPass(s) ==
  LET step(st, i) == TracedStep(s, st, i)
  IN  FoldIdx(step, [flags |-> <<>>,
                     pass  |-> [inString |-> FALSE, inEscape |-> FALSE,
                                result |-> <<>>]], Len(s))

\* the sanitizer has run its steps on the candidate text
Sanitized == pc = "strict" /\ ~faulted

\* the double quote at i is the last character of its string: what follows
\* it is the end of the text or, after spaces, a character of the structure
\* or the first quote of another string
ClosesString(s, i) ==
  /\ s[i] = DQ
  /\ \/ SkipWs(s, i + 1) > Len(s)
     \/ s[SkipWs(s, i + 1)] \in {",", ":", "}", "]", DQ}

\* a quote read inside a string, not escaped, that does not close it
InnerQuote(s, flags, i) ==
  /\ s[i] \in {DQ, SQ}
  /\ flags[i].inString
  /\ ~flags[i].inEscape
  /\ ~ClosesString(s, i)

\* inString once the character at i has been read
InStringAfter(s, traced, i) ==
  IF i < Len(s) THEN traced.flags[i + 1].inString ELSE traced.pass.inString

\* C11: every unescaped quote, single or double, that the character loop
\* reads inside a string and that is not the closing quote of the string
\* comes out as one space and leaves the loop inside the string
C11_InnerQuotesBecomeSpaces ==
  Sanitized =>
    LET s == QuotePassInput(jsonText)
        traced == TracedPass(s)
    IN  \A i \in 1..Len(s) :
          InnerQuote(s, traced.flags, i) =>
            /\ sanitizedJson[i] = " "
            /\ InStringAfter(s, traced, i)

\* ------------------------------------------------------------------------
\* Properties of parseDate
\* ------------------------------------------------------------------------

\* the transactionDate parseDate is given in this scan
RawDate == Get(extractedData, transactionDateKey)

\* the whole of s read as M/D/YYYY
WholeMDYYYY(s) == ThreeNumbersAt(s, 1, "/", 4, FALSE)

\* s is M/D/YYYY, one or two digits, one or two digits, four digits
IsMDYYYY(s) == WholeMDYYYY(s).ok /\ WholeMDYYYY(s).end = Len(s)

\* C12: a transactionDate of the form M/D/YYYY that new Date does not take
\* comes back as the date of year YYYY, month M - 1 and day D
C12_MDYYYYKeepsItsYear ==
  (pc = "done" /\ RawDate.t = "str" /\ IsMDYYYY(RawDate.s)
     /\ ~IsValidDate(NewDateFrom(RawDate))) =>
    /\ ~outcome.raised
    /\ outcome.receiptData.transactionDate =
         NewDateLocal(WholeMDYYYY(RawDate.s).n3, WholeMDYYYY(RawDate.s).n1 - 1,
                      WholeMDYYYY(RawDate.s).n2, 0, 0, 0)

\* what the order of resolution gives for the value v at the time t: now for
\* an absent value, a Date as it is, the general parse of a string where that
\* is valid, else the first of D/M/YY[ H:MM[:SS]], M/D/YYYY and D-M-YYYY that
\* is found in the string, else now
ResolvedInOrder(v, t) ==
  LET general == NewDateFrom(v)
      dmyy    == FormatMatch(v.s, "/", 2, TRUE)
      mdyyyy  == FormatMatch(v.s, "/", 4, FALSE)
      dashed  == FormatMatch(v.s, "-", 4, FALSE)
  IN  IF ~Truthy(v) THEN t
      ELSE IF v.t = "date" THEN v
      ELSE IF IsValidDate(general) THEN general
      ELSE IF dmyy.ok
        THEN NewDateLocal(2000 + dmyy.n3, dmyy.n2 - 1, dmyy.n1, dmyy.h, dmyy.mi, dmyy.s)
      ELSE IF mdyyyy.ok
        THEN NewDateLocal(mdyyyy.n3, mdyyyy.n1 - 1, mdyyyy.n2, 0, 0, 0)
      ELSE IF dashed.ok
        THEN NewDateLocal(dashed.n3, dashed.n2 - 1, dashed.n1, 0, 0, 0)
      ELSE t

FencedContent(s) ==
  LET open  == IndexOfLit(s, 1, Fence)
      start == IF MatchLit(s, open + 3, <<"j", "s", "o", "n">>) THEN open + 7 ELSE open + 3
      close == IndexOfLit(s, start, Fence)
  IN  Trim(Sub(s, start, close - 1))

\* from the first "{" to the last "}"
BraceSpan(s) == Sub(s, IndexOfLit(s, 1, <<"{">>), LastIndexOfChar(s, Len(s), "}"))

\* the search has chosen a block
BlockChosen == pc = "sanitize"

\* the search has reported that there is no block
AbsenceReported == pc = "format" /\ sanitizedJson = None

\* C14 as stated: a fenced block, empty or not, gives its content; with no
\* fenced block the span from the first "{" to the last "}" is taken; with
\* neither, absence is reported and the default record is the data
C14_FenceThenBraces ==
  /\ (BlockChosen \/ AbsenceReported) =>
       IF HasFencePair(text) THEN BlockChosen /\ jsonText = FencedContent(text)
       ELSE IF HasBraceSpan(text) THEN BlockChosen /\ jsonText = BraceSpan(text)
       ELSE AbsenceReported /\ extractedData = defaultData(toISOString(now))

\* C14, amended: a fenced block whose content is not empty gives its
\* content, also when there are braces elsewhere; with no fenced block, or
\* one that is empty, the span from the first "{" to the last "}" is taken;
\* with neither, absence is reported and the default record is the data
C14_FilledFenceThenBraces ==
  /\ (BlockChosen \/ AbsenceReported) =>
       IF HasFencePair(text) /\ FencedContent(text) # <<>>
         THEN BlockChosen /\ jsonText = FencedContent(text)
       ELSE IF HasBraceSpan(text) THEN BlockChosen /\ jsonText = BraceSpan(text)
       ELSE AbsenceReported /\ extractedData = defaultData(toISOString(now))

\* C14 witness: an empty fenced block with an object after it: the object
\* is the block chosen
C14_EmptyFenceLeavesBraces ==
  /\ BlockChosen
  /\ HasFencePair(text)
  /\ FencedContent(text) = <<>>
  /\ jsonText = BraceSpan(text)

\* ------------------------------------------------------------------------
\* Properties of the scan endpoint
\* ------------------------------------------------------------------------

\* the step in which the controller answers a scan that scanReceipt has ended
ScanAnswered == pc = "done" /\ pc' = "idle" /\ request # NoRequest

\* the step has added one document, the last of the collection, and it has
\* the userId and the image path of the request
OneReceiptCreated ==
  /\ Len(store') = Len(store) + 1
  /\ SubSeq(store', 1, Len(store)) = store
  /\ store'[Len(store')].userId = request.userId
  /\ store'[Len(store')].imageUrl = Str(request.imagePath)
  /\ response' = Ended("scan", "ok", <<store'[Len(store')]>>)

\* the step has ended the request with BadRequest and created nothing
RefusedWithNothingCreated ==
  response'.status = "BadRequest" /\ store' = store

\* C15 as stated: a receipt is created only by the step that answers a scan
\* scanReceipt has returned a record for; a request with no file, or one
\* whose scan fails, ends with BadRequest and creates nothing; a scan that
\* returned a record creates exactly one receipt, with the userId of the
\* caller and the image path as imageUrl
C15_ScanThenOneReceipt ==
  [][/\ store' # store => ScanAnswered /\ ~outcome.raised
     /\ (pc = "idle" /\ pc' = "idle") => RefusedWithNothingCreated
     /\ (ScanAnswered /\ outcome.raised) => RefusedWithNothingCreated
     /\ (ScanAnswered /\ ~outcome.raised) => OneReceiptCreated]_vars

\* C15, amended: as stated, except that a scan which returned a record
\* creates exactly one receipt only where the collection takes it, and else
\* ends with BadRequest and creates nothing
C15_ScanThenOneReceiptIfSaved ==
  [][/\ store' # store => ScanAnswered /\ ~outcome.raised
     /\ (pc = "idle" /\ pc' = "idle") => RefusedWithNothingCreated
     /\ (ScanAnswered /\ outcome.raised) => RefusedWithNothingCreated
     /\ (ScanAnswered /\ ~outcome.raised) =>
          OneReceiptCreated \/ RefusedWithNothingCreated]_vars

\* C15 witness: a scan has been saved: the collection holds its receipt,
\* with the userId of the controller and the path of the upload
C15_ScanSaved ==
  /\ pc = "idle"
  /\ store # <<>>
  /\ response = Ended("scan", "ok", <<store[Len(store)]>>)
  /\ store[Len(store)].userId = DemoUser
  /\ store[Len(store)].imageUrl = Str(UploadPath(clock))

\* ------------------------------------------------------------------------
\* Properties of the calls on the collection
\* ------------------------------------------------------------------------

\* the documents with this id that userId owns
Owned(id, userId) == {doc \in Range(store) : doc.id = id /\ doc.userId = userId}

\* the step has raised NotFound and left every document as it was
NotFoundNothingChanged == response'.status = "NotFound" /\ store' = store

\* C16: findOne, update and remove act on the one receipt with the id given
\* that the caller owns and on no other; for an id that no receipt of the
\* caller has they raise NotFound and change nothing; findAll returns the
\* receipts of the caller and no others
C16_OnlyOwnReceipts ==
  [][\A id \in Ids, userId \in Users :
       /\ FindAll(userId) =>
            /\ Range(response'.docs) = {doc \in Range(store) : doc.userId = userId}
            /\ store' = store
       /\ FindOne(id, userId) =>
            IF Owned(id, userId) = {} THEN NotFoundNothingChanged
            ELSE Range(response'.docs) = Owned(id, userId) /\ store' = store
       /\ Remove(id, userId) =>
            IF Owned(id, userId) = {} THEN NotFoundNothingChanged
            ELSE /\ Range(response'.docs) = Owned(id, userId)
                 /\ Range(store') = Range(store) \ Owned(id, userId)
       /\ \A fields \in UpdateBodies :
            Update(id, userId, fields) =>
              IF Owned(id, userId) = {} THEN NotFoundNothingChanged
              ELSE /\ Len(store') = Len(store)
                   /\ \A n \in 1..Len(store) :
                        store'[n] = IF store[n] \in Owned(id, userId)
                                      THEN Updated(store[n], fields) ELSE store[n]]_vars

\* ------------------------------------------------------------------------
\* What the character loop of the sanitizer leaves as it is
\* ------------------------------------------------------------------------

\* the loop has given out for s: as many characters as it read; a character
\* that differs is a single quote read inside a string, now a space; double
\* quotes, backslashes, the characters Escaped names and the characters
\* outside a string are the same
CopiedExcept(s, out, flags, Escaped(_)) ==
  /\ Len(out) = Len(s)
  /\ \A i \in 1..Len(s) :
       /\ out[i] # s[i] => s[i] = SQ /\ flags[i].inString /\ out[i] = " "
       /\ (s[i] \in {DQ, BS} \/ Escaped(i) \/ ~flags[i].inString) => out[i] = s[i]

\* C17 as stated: the loop gives out one character for each it reads and
\* changes only single quotes inside a string, into spaces; double quotes,
\* backslashes, every character that comes directly after a backslash and
\* every character outside a string are copied
C17_OnlyInnerSingleQuotesChange ==
  Sanitized =>
    LET s == QuotePassInput(jsonText)
    IN  CopiedExcept(s, sanitizedJson, TracedPass(s).flags,
                     LAMBDA i : i > 1 /\ s[i - 1] = BS)

\* C17, amended: as stated, the character copied after a backslash being the
\* one read with inEscape set: the one after a backslash that is not itself
\* escaped
C17_OnlyUnescapedInnerSingleQuotesChange ==
  Sanitized =>
    LET s == QuotePassInput(jsonText)
        flags == TracedPass(s).flags
    IN  CopiedExcept(s, sanitizedJson, flags, LAMBDA i : flags[i].inEscape)

\* C17 witness: a single quote after an escaped backslash, inside a string,
\* has come out as a space
C17_QuoteAfterEscapedBackslash ==
  /\ Sanitized
  /\ \E i \in 3..Len(sanitizedJson) :
       /\ QuotePassInput(jsonText)[i] = SQ
       /\ QuotePassInput(jsonText)[i - 1] = BS
       /\ QuotePassInput(jsonText)[i - 2] = BS
       /\ TracedPass(QuotePassInput(jsonText)).flags[i].inString
       /\ sanitizedJson[i] = " "

====
